---- MODULE Spec2Model ----
(***************************************************************************)
(* Rule-based quiz generation of the lecture-note application              *)
(* (src/server.js, generateQuizzesFromBodyRaw and its helpers).            *)
(*                                                                         *)
(* A JavaScript string is a sequence of UTF-16 code units.  Here a string  *)
(* is a sequence of tokens, one token per code unit:                       *)
(*   - an ASCII character is the one-character string itself ("a", "#");   *)
(*   - "@x" is the full-width counterpart of the ASCII character x:        *)
(*       "@." 。  "@," 、  "@!" ！  "@?" ？  "@:" ：  "@(" （  "@)" ）       *)
(*       "@[" 「  "@]" 」  "@{" 『  "@}" 』  "@<" 【  "@>" 】               *)
(*       "@b[" ［  "@b]" ］  "@*" ・  "@ " U+3000 (ideographic space)       *)
(*       "@0".."@9" ０..９                                                  *)
(*   - "ZWSP" is U+200B, "TAB" is U+0009, "LF" U+000A, "CR" U+000D,        *)
(*     "BTICK" is the backtick U+0060;                                     *)
(*   - "->" is → (U+2192);                                                 *)
(*   - "h_xx" is the hiragana with reading xx, "k_xx" the katakana,        *)
(*     "K_xx" a kanji (the legend of the kanji is given with LinePool).    *)
(***************************************************************************)
EXTENDS Integers, Sequences, FiniteSets, TLC

VARIABLES
  pc,          \* the statement of generateQuizzesFromBodyRaw reached
  bodyRaw,     \* the argument bodyRaw
  opts,        \* the options in force (819-824)
  normalized,  \* normalizeLines(lines) (827)
  units,       \* toUnits(normalized) (830)
  extracted,   \* candidates after the extraction loop (833-837)
  scored,      \* candidates after scoring and filtering (840-843)
  deduped,     \* candidates after dedupeCandidates (846)
  sorted,      \* candidates after the sort (849)
  picked,      \* pickWithVariety's list (852)
  result,      \* the returned rows (855-860)
  calls,       \* the other invocations in progress, each with its locals
  db,          \* the tables communities, user_communities and notes
  res          \* the last response of the HTTP API, with its request

vars ==
  <<pc, bodyRaw, opts, normalized, units, extracted, scored, deduped, sorted,
    picked, result, calls, db, res>>

(***************************************************************************)
(* Character classes of the regular expressions (no /u flag anywhere).     *)
(***************************************************************************)
\* \s of a JavaScript RegExp, and what String.prototype.trim strips
IsSpace(c) == c \in {" ", "TAB", "LF", "CR", "@ "}

AsciiDigits == {"0", "1", "2", "3", "4", "5", "6", "7", "8", "9"}

AsciiLetters ==
  {"a", "b", "c", "d", "e", "f", "g", "h", "i", "j", "k", "l", "m",
   "n", "o", "p", "q", "r", "s", "t", "u", "v", "w", "x", "y", "z",
   "A", "B", "C", "D", "E", "F", "G", "H", "I", "J", "K", "L", "M",
   "N", "O", "P", "Q", "R", "S", "T", "U", "V", "W", "X", "Y", "Z"}

\* \w without the u flag: [A-Za-z0-9_]
IsWordChar(c) == c \in AsciiLetters \cup AsciiDigits \cup {"_"}

(***************************************************************************)
(* String primitives.                                                      *)
(***************************************************************************)
\* s.slice(i - 1): the tail of s from position i (1-based)
Tail_(s, i) == IF i > Len(s) THEN <<>> ELSE SubSeq(s, i, Len(s))

\* whether the literal lit occurs in s at position i
MatchAt(s, i, lit) ==
  /\ i >= 1
  /\ i + Len(lit) - 1 <= Len(s)
  /\ SubSeq(s, i, i + Len(lit) - 1) = lit

\* whether one of the literals lits occurs in s at position i
AnyAt(s, i, lits) == \E lit \in lits : MatchAt(s, i, lit)

\* /(a|b|...)/.test(s) for literals
ContainsAny(s, lits) == \E i \in 1..Len(s) : AnyAt(s, i, lits)

\* number of leading / trailing whitespace characters
LeadSpaces(s) ==
  IF \A i \in 1..Len(s) : IsSpace(s[i]) THEN Len(s)
  ELSE (CHOOSE i \in 1..Len(s) :
          ~IsSpace(s[i]) /\ \A j \in 1..(i - 1) : IsSpace(s[j])) - 1

TrailSpaces(s) ==
  IF \A i \in 1..Len(s) : IsSpace(s[i]) THEN Len(s)
  ELSE Len(s) - (CHOOSE i \in 1..Len(s) :
          ~IsSpace(s[i]) /\ \A j \in (i + 1)..Len(s) : IsSpace(s[j]))

\* String.prototype.trimEnd
TrimEnd(s) == SubSeq(s, 1, Len(s) - TrailSpaces(s))

\* String.prototype.trim
Trim(s) ==
  IF LeadSpaces(s) = Len(s) THEN <<>>
  ELSE SubSeq(s, LeadSpaces(s) + 1, Len(s) - TrailSpaces(s))

\* the concatenation of parts[lo], ..., parts[hi], by halves
RECURSIVE ConcatRange(_, _, _)
ConcatRange(parts, lo, hi) ==
  IF lo > hi THEN <<>>
  ELSE IF lo = hi THEN parts[lo]
  ELSE LET mid == (lo + hi) \div 2
       IN  ConcatRange(parts, lo, mid) \o ConcatRange(parts, mid + 1, hi)

\* s.replace(/x/g, to) for a one-character pattern x
ReplaceChar(s, x, to) ==
  ConcatRange([i \in 1..Len(s) |-> IF s[i] = x THEN to ELSE <<s[i]>>],
              1, Len(s))

\* whether a match of s.replace(/lit/g, to) starts at position i: lit is
\* there and no match that started before i reaches i
RECURSIVE LitMatchStart(_, _, _)
LitMatchStart(s, lit, i) ==
  /\ MatchAt(s, i, lit)
  /\ \A j \in (i - Len(lit) + 1)..(i - 1) :
       j >= 1 => ~(MatchAt(s, j, lit) /\ LitMatchStart(s, lit, j))

\* s.replace(/lit/g, to) for a literal of any length, leftmost matches first
ReplaceLit(s, lit, to) ==
  LET Piece(i) ==
        IF LitMatchStart(s, lit, i) THEN to
        ELSE IF \E j \in (i - Len(lit) + 1)..(i - 1) :
                  j >= 1 /\ LitMatchStart(s, lit, j) THEN <<>>
        ELSE <<s[i]>>
  IN  ConcatRange([i \in 1..Len(s) |-> Piece(i)], 1, Len(s))

\* s.split(sep) for the set seps of one-character separators
RECURSIVE SplitOn(_, _)
SplitOn(s, seps) ==
  IF \A i \in 1..Len(s) : s[i] \notin seps THEN <<s>>
  ELSE LET k == CHOOSE i \in 1..Len(s) :
                  s[i] \in seps /\ \A j \in 1..(i - 1) : s[j] \notin seps
       IN  <<SubSeq(s, 1, k - 1)>> \o SplitOn(Tail_(s, k + 1), seps)

\* parts.join(sep)
RECURSIVE Join(_, _)
Join(parts, sep) ==
  IF parts = <<>> THEN <<>>
  ELSE IF Len(parts) = 1 THEN parts[1]
  ELSE parts[1] \o sep \o Join(Tail(parts), sep)

(***************************************************************************)
(* generateQuizzesFromBodyRaw, line 826: String(bodyRaw || "").split(/\r?\n/) *)
(***************************************************************************)
\* the pieces between line feeds; a carriage return right before a line
\* feed belongs to the separator
SplitLines(body) ==
  LET pieces == SplitOn(body, {"LF"})
      Chop(i) == IF i < Len(pieces) /\ Len(pieces[i]) > 0
                    /\ pieces[i][Len(pieces[i])] = "CR"
                 THEN SubSeq(pieces[i], 1, Len(pieces[i]) - 1)
                 ELSE pieces[i]
  IN  [i \in 1..Len(pieces) |-> Chop(i)]

(***************************************************************************)
(* normalizeLines (src/server.js 864-902)                                  *)
(***************************************************************************)
Fence == <<"BTICK", "BTICK", "BTICK">>

\* /^\s*```/.test(s)
IsFenceLine(s) == MatchAt(s, LeadSpaces(s) + 1, Fence)

\* number of consecutive non-whitespace characters of s from position i
NonSpaceRun(s, i) ==
  LET E == {e \in i..Len(s) : IsSpace(s[e])}
  IN  IF i > Len(s) THEN 0
      ELSE IF E = {} THEN Len(s) - i + 1
      ELSE (CHOOSE e \in E : \A f \in E : e <= f) - i

\* length of the match of /https?:\/\/\S+/ at the head of s, 0 when none
UrlMatchLen(s) ==
  LET https == <<"h", "t", "t", "p", "s", ":", "/", "/">>
      http  == <<"h", "t", "t", "p", ":", "/", "/">>
  IN  IF MatchAt(s, 1, https) /\ NonSpaceRun(s, 9) > 0
        THEN 8 + NonSpaceRun(s, 9)
      ELSE IF MatchAt(s, 1, http) /\ NonSpaceRun(s, 8) > 0
        THEN 7 + NonSpaceRun(s, 8)
      ELSE 0

\* s.replace(/https?:\/\/\S+/g, "").  A match runs to the end of its run of
\* non-whitespace characters, so position i is removed when the pattern
\* matches at some j <= i and that match reaches i.
StripUrls(s) ==
  LET Removed(i) == \E j \in 1..i :
                      /\ UrlMatchLen(Tail_(s, j)) > 0
                      /\ i < j + UrlMatchLen(Tail_(s, j))
  IN  ConcatRange([i \in 1..Len(s) |->
                     IF Removed(i) THEN <<>> ELSE <<s[i]>>], 1, Len(s))

\* lines 879-882: zero-width spaces, tabs, URLs, trailing whitespace
CleanLine(s) ==
  TrimEnd(StripUrls(ReplaceChar(ReplaceChar(s, "ZWSP", <<>>), "TAB", <<" ">>)))

\* the for loop of lines 868-885, from line i on with the toggle inCode
RECURSIVE NormalizeFrom(_, _, _)
NormalizeFrom(lines, i, inCode) ==
  IF i > Len(lines) THEN <<>>
  ELSE IF IsFenceLine(lines[i]) THEN NormalizeFrom(lines, i + 1, ~inCode)
  ELSE IF inCode THEN NormalizeFrom(lines, i + 1, inCode)
  ELSE <<[raw |-> CleanLine(lines[i]), lineNo |-> i]>>
         \o NormalizeFrom(lines, i + 1, inCode)

\* normalizeLines numbering the lines it keeps 1, 2, ... as it pushes them,
\* out.length + 1 in the place of i + 1 at line 884
normalizeLinesRenumbered(lines) ==
  LET out == NormalizeFrom(lines, 1, FALSE)
  IN  [threw |-> Len(out) = 0,
       out |-> [k \in 1..Len(out) |-> [raw |-> out[k].raw, lineNo |-> k]]]

\* normalizeLines(lines).  When the loop kept no line, line 888 reads the
\* identifier text, which no enclosing scope declares: a ReferenceError is
\* thrown before anything is pushed (threw = TRUE).
normalizeLines(lines) ==
  LET out == NormalizeFrom(lines, 1, FALSE)
  IN  [threw |-> Len(out) = 0, out |-> out]

(***************************************************************************)
(* toUnits (src/server.js 905-973) and its helpers                         *)
(***************************************************************************)
\* the . of a RegExp without the s flag: anything but a line terminator
AllDot(s) == \A i \in 1..Len(s) : s[i] \notin {"LF", "CR"}

\* s.replace(/\s+/g, " ")
CollapseSpaces(s) ==
  LET Piece(i) == IF ~IsSpace(s[i]) THEN <<s[i]>>
                  ELSE IF i > 1 /\ IsSpace(s[i - 1]) THEN <<>>
                  ELSE <<" ">>
  IN  ConcatRange([i \in 1..Len(s) |-> Piece(i)], 1, Len(s))

\* cleanInline (975-980)
cleanInline(s) ==
  LET NotMark(c) == c \notin {"*", "_", "~", "BTICK"}
  IN  Trim(CollapseSpaces(SelectSeq(s, NotMark)))

\* splitSentences (982-991): a "|" is put after every 。！？ and the string
\* is split at every "|"
splitSentences(s) ==
  SplitOn(ReplaceChar(ReplaceChar(ReplaceChar(s,
            "@.", <<"@.", "|">>), "@!", <<"@!", "|">>), "@?", <<"@?", "|">>),
          {"|"})

\* number of leading characters of s that belong to the set cs
RECURSIVE LeadRun(_, _)
LeadRun(s, cs) ==
  IF s = <<>> \/ Head(s) \notin cs THEN 0 ELSE 1 + LeadRun(Tail(s), cs)

\* s.match(/^(#{1,6})\s+(.+)$/): [ok, rest] with rest the group 2
HeadingMatch(s) ==
  LET k    == LeadRun(s, {"#"})
      w    == LeadSpaces(Tail_(s, k + 1))
      rest == Tail_(s, k + w + 1)
  IN  IF k >= 1 /\ k <= 6 /\ w >= 1 /\ Len(rest) >= 1 /\ AllDot(rest)
      THEN [ok |-> TRUE, rest |-> rest]
      ELSE [ok |-> FALSE, rest |-> <<>>]

\* s.match(/^(\-|\*|・|\d+\.)\s+(.+)$/): [ok, rest] with rest the group 2
BulletMatch(s) ==
  LET d    == LeadRun(s, AsciiDigits)
      m    == IF Len(s) >= 1 /\ s[1] \in {"-", "*", "@*"} THEN 1
              ELSE IF d >= 1 /\ d < Len(s) /\ s[d + 1] = "." THEN d + 1
              ELSE 0
      w    == LeadSpaces(Tail_(s, m + 1))
      rest == Tail_(s, m + w + 1)
  IN  IF m >= 1 /\ w >= 1 /\ Len(rest) >= 1 /\ AllDot(rest)
      THEN [ok |-> TRUE, rest |-> rest]
      ELSE [ok |-> FALSE, rest |-> <<>>]

\* flushBullets (913-925): the unit of the buffered bullets, if any
FlushBullets(heading, buf, startLine) ==
  LET text == Trim(Join(buf, <<" ", "/", " ">>))
  IN  IF Len(buf) = 0 \/ Len(text) = 0 THEN <<>>
      ELSE <<[text |-> text, heading |-> heading, lineNo |-> startLine]>>

\* lines 959-968: the units of the sentences of an ordinary line
RECURSIVE SentenceUnits(_, _, _)
SentenceUnits(parts, heading, lineNo) ==
  IF parts = <<>> THEN <<>>
  ELSE (IF Len(Trim(Head(parts))) = 0 THEN <<>>
        ELSE <<[text |-> Trim(Head(parts)), heading |-> heading,
                lineNo |-> lineNo]>>)
       \o SentenceUnits(Tail(parts), heading, lineNo)

\* the for loop of lines 927-969 from item i on, followed by the final
\* flushBullets of line 971
RECURSIVE UnitsFrom(_, _, _, _, _)
UnitsFrom(normLines, i, heading, buf, startLine) ==
  IF i > Len(normLines) THEN FlushBullets(heading, buf, startLine)
  ELSE
    LET item == normLines[i]
        s    == Trim(item.raw)
        hm   == HeadingMatch(s)
        bm   == BulletMatch(s)
    IN  IF Len(s) = 0
          THEN FlushBullets(heading, buf, startLine)
                 \o UnitsFrom(normLines, i + 1, heading, <<>>, 0)
        ELSE IF hm.ok
          THEN FlushBullets(heading, buf, startLine)
                 \o UnitsFrom(normLines, i + 1, cleanInline(hm.rest), <<>>, 0)
        ELSE IF bm.ok
          THEN UnitsFrom(normLines, i + 1, heading,
                 IF Len(cleanInline(bm.rest)) > 0
                   THEN Append(buf, cleanInline(bm.rest)) ELSE buf,
                 IF Len(buf) = 0 THEN item.lineNo ELSE startLine)
        ELSE FlushBullets(heading, buf, startLine)
               \o SentenceUnits(splitSentences(cleanInline(s)), heading,
                                item.lineNo)
               \o UnitsFrom(normLines, i + 1, heading, <<>>, 0)

\* the loop of toUnits with currentHeading cleared at every blank line
RECURSIVE UnitsFromBlankReset(_, _, _, _, _)
UnitsFromBlankReset(normLines, i, heading, buf, startLine) ==
  IF i > Len(normLines) THEN FlushBullets(heading, buf, startLine)
  ELSE
    LET item == normLines[i]
        s    == Trim(item.raw)
        hm   == HeadingMatch(s)
        bm   == BulletMatch(s)
    IN  IF Len(s) = 0
          THEN FlushBullets(heading, buf, startLine)
                 \o UnitsFromBlankReset(normLines, i + 1, <<>>, <<>>, 0)
        ELSE IF hm.ok
          THEN FlushBullets(heading, buf, startLine)
                 \o UnitsFromBlankReset(normLines, i + 1,
                                        cleanInline(hm.rest), <<>>, 0)
        ELSE IF bm.ok
          THEN UnitsFromBlankReset(normLines, i + 1, heading,
                 IF Len(cleanInline(bm.rest)) > 0
                   THEN Append(buf, cleanInline(bm.rest)) ELSE buf,
                 IF Len(buf) = 0 THEN item.lineNo ELSE startLine)
        ELSE FlushBullets(heading, buf, startLine)
               \o SentenceUnits(splitSentences(cleanInline(s)), heading,
                                item.lineNo)
               \o UnitsFromBlankReset(normLines, i + 1, heading, <<>>, 0)

toUnitsBlankReset(normLines) ==
  UnitsFromBlankReset(normLines, 1, <<>>, <<>>, 0)

\* toUnits (905-973)
toUnits(normLines) == UnitsFrom(normLines, 1, <<>>, <<>>, 0)

(***************************************************************************)
(* extractFromUnit (src/server.js 994-1130) and its helpers                *)
(***************************************************************************)
SetMin(S) == CHOOSE x \in S : \A y \in S : x <= y

SetMax(S) == CHOOSE x \in S : \A y \in S : x >= y

\* the characters of the class [。！？]
Punct == {"@.", "@!", "@?"}

\* [。！？]?$ : nothing or one sentence mark is left
PunctTailOK(rem) == rem = <<>> \/ (Len(rem) = 1 /\ rem[1] \in Punct)

\* trimJP (1148-1150): /^[\s　]+|[\s　]+$/g removed; U+3000 is in \s already
trimJP(s) == Trim(s)

\* makeCandidate (1132-1140)
makeCandidate(type, question, answer, source_line, kind) ==
  [type |-> type, question |-> Trim(question), answer |-> Trim(answer),
   source_line |-> source_line, meta |-> [kind |-> kind]]

\* withHeading (1142-1146)
withHeading(heading, q) ==
  IF Len(heading) = 0 THEN q ELSE <<"@<">> \o heading \o <<"@>">> \o q

\* s.replace(/[。！？]$/, "")
StripFinalPunct(s) ==
  IF Len(s) > 0 /\ s[Len(s)] \in Punct THEN SubSeq(s, 1, Len(s) - 1) ELSE s

\* arr.map(trimJP).filter(Boolean)
RECURSIVE TrimmedNonEmpty(_)
TrimmedNonEmpty(parts) ==
  IF parts = <<>> THEN <<>>
  ELSE (IF Len(trimJP(Head(parts))) = 0 THEN <<>> ELSE <<trimJP(Head(parts))>>)
       \o TrimmedNonEmpty(Tail(parts))

\* splitList (1152-1159).  The separator /(?:\/|、|,|・|;|：|:)\s*/ also eats
\* the whitespace after the mark; every piece is trimmed afterwards, so the
\* pieces are those of a split at the marks alone.
splitList(s) ==
  LET ShortEnough(t) == Len(t) <= 60
  IN  SelectSeq(TrimmedNonEmpty(
        SplitOn(StripFinalPunct(s), {"/", "@,", ",", "@*", ";", "@:", ":"})),
        ShortEnough)

\* (?:である|のこと|を指す|という)
DefSuffixes == {<<"h_de", "h_a", "h_ru">>, <<"h_no", "h_ko", "h_to">>,
    <<"h_wo", "K_sasu", "h_su">>, <<"h_to", "h_i", "h_u">>}

\* (?:である|のこと|を指す|という)?[。！？]?$
DefTailOK(rem) ==
  \/ PunctTailOK(rem)
  \/ \E suf \in DefSuffixes :
       MatchAt(rem, 1, suf) /\ PunctTailOK(Tail_(rem, Len(suf) + 1))

\* the lazy group (.{6,120}?) starting at position q of text: its length in
\* the first match the backtracking finds, 0 when there is none
DefBodyLen(text, q) ==
  LET J == {j \in 6..120 :
              q + j - 1 <= Len(text) /\ DefTailOK(Tail_(text, q + j))}
  IN  IF J = {} THEN 0 ELSE SetMin(J)

\* text.match(/^(.{2,30}?)とは、?(.{6,120}?)(?:である|のこと|を指す|という)?[。！？]?$/)
\* (1004 and 1102): [ok, term, def] with the groups 1 and 2.  The group 1 is
\* the shortest that lets the rest match; 、? takes the comma when it can.
DefMatch(text) ==
  LET Start(i) == IF MatchAt(text, i + 3, <<"@,">>)
                     /\ DefBodyLen(text, i + 4) > 0
                  THEN i + 4 ELSE i + 3
      I == {i \in 2..30 : /\ MatchAt(text, i + 1, <<"h_to", "h_ha">>)
                          /\ DefBodyLen(text, Start(i)) > 0}
  IN  IF ~AllDot(text) \/ I = {}
      THEN [ok |-> FALSE, term |-> <<>>, def |-> <<>>]
      ELSE LET i == SetMin(I)
               q == Start(i)
           IN  [ok |-> TRUE, term |-> SubSeq(text, 1, i),
                def |-> SubSeq(text, q, q + DefBodyLen(text, q) - 1)]

\* (?:に分かれる|に分類される|がある|が存在する)
ClassEndings == {<<"h_ni", "K_bun", "h_ka", "h_re", "h_ru">>, <<"h_ni",
    "K_bun", "K_rui", "h_sa", "h_re", "h_ru">>, <<"h_ga", "h_a", "h_ru">>,
    <<"h_ga", "K_son", "K_zai", "h_su", "h_ru">>}

\* the lazy group 3 (.{2,40}?) of the classification pattern at position r
ClassThirdLen(text, r) ==
  LET K == {k \in 2..40 : \E e \in ClassEndings :
              /\ MatchAt(text, r + k, e)
              /\ PunctTailOK(Tail_(text, r + k + Len(e)))}
  IN  IF K = {} THEN 0 ELSE SetMin(K)

\* the lazy group 2 (.{2,40}?) of the classification pattern at position q,
\* followed by (?:と|、)
ClassSecondLen(text, q) ==
  LET J == {j \in 2..40 : /\ q + j <= Len(text)
                          /\ text[q + j] \in {"h_to", "@,"}
                          /\ ClassThirdLen(text, q + j + 1) > 0}
  IN  IF J = {} THEN 0 ELSE SetMin(J)

\* text.match(/^(.{2,30}?)は、?(.{2,40}?)(?:と|、)(.{2,40}?)(?:に分かれる|に分類される|がある|が存在する)[。！？]?$/)
\* (1029): [ok, subject, a, b] with the groups 1, 2 and 3
ClassMatch(text) ==
  LET Start(i) == IF MatchAt(text, i + 2, <<"@,">>)
                     /\ ClassSecondLen(text, i + 3) > 0
                  THEN i + 3 ELSE i + 2
      I == {i \in 2..30 : /\ MatchAt(text, i + 1, <<"h_ha">>)
                          /\ ClassSecondLen(text, Start(i)) > 0}
  IN  IF ~AllDot(text) \/ I = {}
      THEN [ok |-> FALSE, subject |-> <<>>, a |-> <<>>, b |-> <<>>]
      ELSE LET i == SetMin(I)
               q == Start(i)
               j == ClassSecondLen(text, q)
               r == q + j + 1
           IN  [ok |-> TRUE, subject |-> SubSeq(text, 1, i),
                a |-> SubSeq(text, q, q + j - 1),
                b |-> SubSeq(text, r, r + ClassThirdLen(text, r) - 1)]

\* (?:の特徴|の要素|のポイント|には|は); no two of them can match at one place
ListMarks == {<<"h_no", "K_toku", "K_chou">>, <<"h_no", "K_you", "K_so">>,
    <<"h_no", "k_po", "k_i", "k_n", "k_to">>, <<"h_ni", "h_ha">>, <<"h_ha">>}

\* \s*(.{2,120})$ from position p: the start of the greedy group 2 (\s* takes
\* as many blanks as still leave 2 to 120 characters), 0 when there is none
ListRestStart(text, p) ==
  LET w == LeadSpaces(Tail_(text, p))
      W == {v \in 0..w : /\ Len(text) - (p + v) + 1 >= 2
                         /\ Len(text) - (p + v) + 1 <= 120}
  IN  IF W = {} THEN 0 ELSE p + SetMax(W)

\* text.match(/^(.{2,30}?)(?:の特徴|の要素|のポイント|には|は)(?:、|:)?\s*(.{2,120})$/)
\* (1048): [ok, subject, rest] with the groups 1 and 2
ListMatch(text) ==
  LET After(i) == i + 1 + Len(CHOOSE m \in ListMarks : MatchAt(text, i + 1, m))
      Start(i) == IF /\ After(i) <= Len(text)
                     /\ text[After(i)] \in {"@,", ":"}
                     /\ ListRestStart(text, After(i) + 1) > 0
                  THEN ListRestStart(text, After(i) + 1)
                  ELSE ListRestStart(text, After(i))
      I == {i \in 2..30 : AnyAt(text, i + 1, ListMarks) /\ Start(i) > 0}
  IN  IF ~AllDot(text) \/ I = {}
      THEN [ok |-> FALSE, subject |-> <<>>, rest |-> <<>>]
      ELSE LET i == SetMin(I)
           IN  [ok |-> TRUE, subject |-> SubSeq(text, 1, i),
                rest |-> Tail_(text, Start(i))]

\* (?:のため|により|なので|その結果|したがって)
CauseMarks == {<<"h_no", "h_ta", "h_me">>, <<"h_ni", "h_yo", "h_ri">>,
    <<"h_na", "h_no", "h_de">>, <<"h_so", "h_no", "K_ketsu", "K_ka">>,
    <<"h_shi", "h_ta", "h_ga", "h_xtsu", "h_te">>}

\* text.match(/^(.{4,80}?)(?:のため|により|なので|その結果|したがって)(.{4,80})$/)
\* (1069): [ok, cause, effect] with the groups 1 and 2
CauseMatch(text) ==
  LET RestLen(i) ==
        Len(text) - i - Len(CHOOSE m \in CauseMarks : MatchAt(text, i + 1, m))
      I == {i \in 4..80 : /\ AnyAt(text, i + 1, CauseMarks)
                          /\ RestLen(i) >= 4 /\ RestLen(i) <= 80}
  IN  IF ~AllDot(text) \/ I = {}
      THEN [ok |-> FALSE, cause |-> <<>>, effect |-> <<>>]
      ELSE LET i == SetMin(I)
           IN  [ok |-> TRUE, cause |-> SubSeq(text, 1, i),
                effect |-> Tail_(text, Len(text) - RestLen(i) + 1)]

\* /(まず|次に|その後|最後に)/
StepMarks == {<<"h_ma", "h_zu">>, <<"K_tsugi", "h_ni">>, <<"h_so", "h_no",
    "K_ato">>, <<"K_sai", "K_ato", "h_ni">>}

\* def.replace(/重要/g, "不要").replace(/増加/g, "減少").replace(/大/g, "小")
\* (1108)
Falsify(def) ==
  ReplaceLit(ReplaceLit(ReplaceLit(def, <<"K_juu", "K_you">>, <<"K_fu",
      "K_you">>), <<"K_zou", "K_kuwa">>, <<"K_gen", "K_shou">>),
             <<"K_dai">>, <<"K_small">>)

\* rule 1 with the second push (1016-1022) left out
DefCandidatesDirectOnly(u) ==
  LET m1   == DefMatch(u.text)
      term == trimJP(m1.term)
      def  == trimJP(m1.def)
  IN  IF m1.ok /\ Len(term) > 0 /\ Len(def) > 0
      THEN << makeCandidate("fill",
                withHeading(u.heading,
                  <<"@[">> \o term
                    \o <<"@]", "h_to", "h_ha", "K_nani", "h_ka", "@?">>),
                def, u.lineNo, "def") >>
      ELSE <<>>

\* rule 1 (1003-1025): the two candidates of a definition
DefCandidates(u) ==
  LET m1   == DefMatch(u.text)
      term == trimJP(m1.term)
      def  == trimJP(m1.def)
  IN  IF m1.ok /\ Len(term) > 0 /\ Len(def) > 0
      THEN << makeCandidate("fill",
                withHeading(u.heading, <<"@[">> \o term \o <<"@]", "h_to",
                    "h_ha", "K_nani", "h_ka", "@?">>),
                def, u.lineNo, "def"),
              makeCandidate("fill",
                withHeading(u.heading, term \o <<"h_to", "h_ha", "@,", "@(",
                    "@ ", "@ ", "@ ", "@)", "h_de", "h_a", "h_ru">>),
                def, u.lineNo, "def_blank") >>
      ELSE <<>>

\* rule 2 (1028-1044): two-way classification
ClassCandidates(u) ==
  LET m       == ClassMatch(u.text)
      subject == trimJP(m.subject)
      a       == trimJP(m.a)
      b       == trimJP(m.b)
  IN  IF m.ok /\ Len(subject) > 0 /\ Len(a) > 0 /\ Len(b) > 0
      THEN << makeCandidate("short",
                withHeading(u.heading, subject \o <<"h_ha", "K_nani", "h_to",
                    "K_nani", "h_ni", "K_bun", "h_ka", "h_re", "h_ru", "@?">>),
                a \o <<" ", "h_to", " ">> \o b, u.lineNo, "class2") >>
      ELSE <<>>

\* rule 3 giving its candidate the type "list", the kind of line 1061 in the
\* place of the type of line 1057
ListCandidatesKindAsType(u) ==
  LET m       == ListMatch(u.text)
      subject == trimJP(m.subject)
      items   == splitList(trimJP(m.rest))
  IN  IF m.ok /\ Len(subject) > 0 /\ Len(items) >= 3
      THEN << makeCandidate("list",
                withHeading(u.heading, subject \o <<"h_no", "@(", "K_omo",
                    "h_na", "@)", "k_po", "k_i", "k_n", "k_to", "h_wo",
                    "K_age", "h_ge", "h_yo">>),
                Join(SubSeq(items, 1, IF Len(items) < 5 THEN Len(items) ELSE 5),
                     <<" ", "/", " ">>),
                u.lineNo, "list") >>
      ELSE <<>>

\* rule 3 (1047-1065): enumeration
ListCandidates(u) ==
  LET m       == ListMatch(u.text)
      subject == trimJP(m.subject)
      items   == splitList(trimJP(m.rest))
  IN  IF m.ok /\ Len(subject) > 0 /\ Len(items) >= 3
      THEN << makeCandidate("short",
                withHeading(u.heading, subject \o <<"h_no", "@(", "K_omo",
                    "h_na", "@)", "k_po", "k_i", "k_n", "k_to", "h_wo",
                    "K_age", "h_ge", "h_yo">>),
                Join(SubSeq(items, 1, IF Len(items) < 5 THEN Len(items) ELSE 5),
                     <<" ", "/", " ">>),
                u.lineNo, "list") >>
      ELSE <<>>

\* rule 4 (1068-1083): causation
CauseCandidates(u) ==
  LET m      == CauseMatch(u.text)
      cause  == trimJP(m.cause)
      effect == trimJP(m.effect)
  IN  IF m.ok /\ Len(cause) > 0 /\ Len(effect) > 0
      THEN << makeCandidate("short",
                withHeading(u.heading,
                  <<"K_tsugi", "h_no", "K_in", "K_ka", "K_kan", "K_kei",
                      "h_wo", "K_kotae", "h_e", "h_yo",
                      "@:">> \o cause \o <<" ", "->", " ", "@?">>),
                StripFinalPunct(effect), u.lineNo, "cause") >>
      ELSE <<>>

\* rule 5 (1086-1097): procedure
StepCandidates(u) ==
  LET steps == TrimmedNonEmpty(SplitOn(u.text, {"/", "@,", ","}))
  IN  IF ContainsAny(u.text, StepMarks) /\ Len(steps) >= 3
      THEN << makeCandidate("short",
                withHeading(u.heading, <<"K_te", "K_jun", "h_wo", "K_jun",
                    "K_ban", "h_ni", "K_setsu", "K_mei", "h_se", "h_yo">>),
                Join(SubSeq(steps, 1, IF Len(steps) < 6 THEN Len(steps) ELSE 6),
                     <<" ", "->", " ">>),
                u.lineNo, "steps") >>
      ELSE <<>>

\* rule 6 without the test wrong !== def of line 1109
TfCandidatesUnchanged(u) ==
  LET m     == DefMatch(u.text)
      term  == trimJP(m.term)
      def   == trimJP(m.def)
      wrong == Falsify(def)
  IN  IF /\ m.ok /\ Len(term) > 0 /\ Len(def) > 0
         /\ Len(def) >= 8 /\ Len(def) <= 80
      THEN << makeCandidate("tf",
                withHeading(u.heading,
                  <<"K_sei", "h_shi", "h_i", "@?", "K_go", "h_ri", "@?", "@:",
                      "@[">> \o term \o <<"h_to", "h_ha">> \o wrong
                    \o <<"h_de", "h_a", "h_ru", "@]">>),
                <<"K_go", "h_ri">>, u.lineNo, "tf"),
              makeCandidate("tf",
                withHeading(u.heading,
                  <<"K_sei", "h_shi", "h_i", "@?", "K_go", "h_ri", "@?", "@:",
                      "@[">> \o term \o <<"h_to", "h_ha">> \o def
                    \o <<"h_de", "h_a", "h_ru", "@]">>),
                <<"K_sei", "h_shi", "h_i">>, u.lineNo, "tf") >>
      ELSE <<>>

\* rule 6 (1101-1127): the true/false pair of a definition
TfCandidates(u) ==
  LET m     == DefMatch(u.text)
      term  == trimJP(m.term)
      def   == trimJP(m.def)
      wrong == Falsify(def)
  IN  IF /\ m.ok /\ Len(term) > 0 /\ Len(def) > 0
         /\ Len(def) >= 8 /\ Len(def) <= 80
         /\ wrong # def
      THEN << makeCandidate("tf",
                withHeading(u.heading,
                  <<"K_sei", "h_shi", "h_i", "@?", "K_go", "h_ri", "@?", "@:",
                      "@[">> \o term \o <<"h_to",
                      "h_ha">> \o wrong \o <<"h_de", "h_a", "h_ru", "@]">>),
                <<"K_go", "h_ri">>, u.lineNo, "tf"),
              makeCandidate("tf",
                withHeading(u.heading,
                  <<"K_sei", "h_shi", "h_i", "@?", "K_go", "h_ri", "@?", "@:",
                      "@[">> \o term \o <<"h_to", "h_ha">> \o def \o <<"h_de",
                      "h_a", "h_ru", "@]">>),
                <<"K_sei", "h_shi", "h_i">>, u.lineNo, "tf") >>
      ELSE <<>>

\* extractFromUnit (994-1130): the candidates of the six rules, in order
extractFromUnit(u) ==
  DefCandidates(u) \o ClassCandidates(u) \o ListCandidates(u)
    \o CauseCandidates(u) \o StepCandidates(u) \o TfCandidates(u)

\* lines 833-837 of generateQuizzesFromBodyRaw: the candidates of all units
RECURSIVE ExtractAll(_)
ExtractAll(us) ==
  IF us = <<>> THEN <<>>
  ELSE extractFromUnit(Head(us)) \o ExtractAll(Tail(us))

(***************************************************************************)
(* Scoring and filtering (src/server.js 1162-1219)                         *)
(***************************************************************************)
\* lengthScore taking as many points for a length above max as for one below
\* min
lengthScoreSymmetric(len, min, max) ==
  IF len < min \/ len > max THEN -2 ELSE 1

\* lengthScore (1196-1200)
lengthScore(len, min, max) ==
  IF len < min THEN -2 ELSE IF len > max THEN -1 ELSE 1

\* /(これ|それ|あれ|この|その|あの)/
Demonstratives == {<<"h_ko", "h_re">>, <<"h_so", "h_re">>, <<"h_a", "h_re">>,
    <<"h_ko", "h_no">>, <<"h_so", "h_no">>, <<"h_a", "h_no">>}

\* /[0-9０-９]/.test(s)
HasDigit(s) ==
  \E i \in 1..Len(s) :
    s[i] \in AsciiDigits
               \cup {"@0", "@1", "@2", "@3", "@4", "@5", "@6", "@7", "@8",
                   "@9"}

\* the end of the first match of /^【.+?】/ in s (the position of the nearest
\* 】 that leaves at least one character inside), 0 when s has no such tag
HeadingTagEnd(s) ==
  LET J == {j \in 3..Len(s) : s[j] = "@>" /\ AllDot(SubSeq(s, 2, j - 1))}
  IN  IF Len(s) >= 3 /\ s[1] = "@<" /\ J # {} THEN SetMin(J) ELSE 0

\* the base points of a kind with those of steps for tf
KindScoreTfAsSteps(kind) ==
  CASE kind = "def"       -> 6
    [] kind = "def_blank" -> 5
    [] kind = "class2"    -> 5
    [] kind = "list"      -> 4
    [] kind = "cause"     -> 4
    [] kind = "steps"     -> 4
    [] kind = "tf"        -> 4
    [] OTHER              -> 0

\* the base points of a kind (1169-1175)
KindScore(kind) ==
  CASE kind = "def"       -> 6
    [] kind = "def_blank" -> 5
    [] kind = "class2"    -> 5
    [] kind = "list"      -> 4
    [] kind = "cause"     -> 4
    [] kind = "steps"     -> 4
    [] kind = "tf"        -> 2
    [] OTHER              -> 0

\* scoreCandidate (1162-1194); /^【.+】/ matches exactly when /^【.+?】/ does
scoreCandidate(c) ==
  KindScore(c.meta.kind)
  + lengthScore(Len(c.question), 15, 90)
  + lengthScore(Len(c.answer), 6, 120)
  + (IF ContainsAny(c.question, Demonstratives) THEN -2 ELSE 0)
  + (IF ContainsAny(c.answer, Demonstratives) THEN -1 ELSE 0)
  + (IF HasDigit(c.question) \/ HasDigit(c.answer) THEN 1 ELSE 0)
  + (IF HeadingTagEnd(c.question) > 0 THEN 1 ELSE 0)

\* /^(重要|大事|必要|不要|はい|いいえ)$/
GenericAnswers == {<<"K_juu", "K_you">>, <<"K_dai", "K_koto">>, <<"K_hitsu",
    "K_you">>, <<"K_fu", "K_you">>, <<"h_ha", "h_i">>, <<"h_i", "h_i", "h_e">>}

\* /^[\W_]+$/.test(s): s is not empty and holds no ASCII letter or digit
\* (without the u flag \W is everything outside [A-Za-z0-9_])
SymbolsOnly(s) ==
  Len(s) > 0 /\ \A i \in 1..Len(s) : ~IsWordChar(s[i]) \/ s[i] = "_"

\* isGoodCandidate without the test q.length < 8 of line 1207
isGoodCandidateAnyLength(c) ==
  /\ ~(Len(c.question) = 0)
  /\ ~(c.type # "tf" /\ (Len(c.answer) = 0 \/ Len(c.answer) < 2))
  /\ c.answer \notin GenericAnswers
  /\ ~(SymbolsOnly(c.question) \/ SymbolsOnly(c.answer))

\* isGoodCandidate with the test /^[\W_]+$/ of line 1216 on the question
\* alone
isGoodCandidateAnyAnswer(c) ==
  /\ ~(Len(c.question) = 0 \/ Len(c.question) < 8)
  /\ ~(c.type # "tf" /\ (Len(c.answer) = 0 \/ Len(c.answer) < 2))
  /\ c.answer \notin GenericAnswers
  /\ ~SymbolsOnly(c.question)

\* isGoodCandidate (1202-1219)
isGoodCandidate(c) ==
  /\ ~(Len(c.question) = 0 \/ Len(c.question) < 8)
  /\ ~(c.type # "tf" /\ (Len(c.answer) = 0 \/ Len(c.answer) < 2))
  /\ c.answer \notin GenericAnswers
  /\ ~(SymbolsOnly(c.question) \/ SymbolsOnly(c.answer))

\* lines 840-843 without the comparison of the score with minScore
RECURSIVE ScoreAndFilterNoMin(_, _)
ScoreAndFilterNoMin(cands, minScore) ==
  IF cands = <<>> THEN <<>>
  ELSE LET c == [type |-> Head(cands).type, question |-> Head(cands).question,
                 answer |-> Head(cands).answer,
                 source_line |-> Head(cands).source_line,
                 meta |-> Head(cands).meta,
                 score |-> scoreCandidate(Head(cands))]
       IN  (IF isGoodCandidate(c) THEN <<c>> ELSE <<>>)
           \o ScoreAndFilterNoMin(Tail(cands), minScore)

\* lines 840-843: score every candidate, keep those reaching minScore that
\* isGoodCandidate accepts
RECURSIVE ScoreAndFilter(_, _)
ScoreAndFilter(cands, minScore) ==
  IF cands = <<>> THEN <<>>
  ELSE LET c == [type |-> Head(cands).type, question |-> Head(cands).question,
                 answer |-> Head(cands).answer,
                 source_line |-> Head(cands).source_line,
                 meta |-> Head(cands).meta,
                 score |-> scoreCandidate(Head(cands))]
       IN  (IF c.score >= minScore /\ isGoodCandidate(c) THEN <<c>> ELSE <<>>)
           \o ScoreAndFilter(Tail(cands), minScore)

(***************************************************************************)
(* Deduplication (src/server.js 1221-1240)                                 *)
(***************************************************************************)
\* normalizeKey (1234-1240)
normalizeKey(s) ==
  LET untagged == Tail_(s, HeadingTagEnd(s) + 1)
      Kept(c)  == /\ ~IsSpace(c)
                  /\ c \notin {"@[", "@]", "@{", "@}", "@(", "@)", "(", ")",
                               "@b[", "@b]", "[", "]", "@<", "@>"}
      key      == SelectSeq(untagged, Kept)
  IN  SubSeq(key, 1, IF Len(key) < 120 THEN Len(key) ELSE 120)

\* the loop of dedupeCandidates keeping the last candidate of every key, not
\* the first
RECURSIVE DedupeFromKeepLast(_, _, _)
DedupeFromKeepLast(cands, i, seen) ==
  IF i > Len(cands) THEN <<>>
  ELSE IF \E j \in (i + 1)..Len(cands) :
            normalizeKey(cands[j].question) = normalizeKey(cands[i].question)
       THEN DedupeFromKeepLast(cands, i + 1, seen)
       ELSE <<cands[i]>> \o DedupeFromKeepLast(cands, i + 1, seen)

\* the loop of dedupeCandidates from candidate i on, seen being the keys met
RECURSIVE DedupeFrom(_, _, _)
DedupeFrom(cands, i, seen) ==
  IF i > Len(cands) THEN <<>>
  ELSE IF normalizeKey(cands[i].question) \in seen
       THEN DedupeFrom(cands, i + 1, seen)
       ELSE <<cands[i]>>
            \o DedupeFrom(cands, i + 1,
                          seen \cup {normalizeKey(cands[i].question)})

\* dedupeCandidates with the Set seen kept outside the function, where the
\* keys the other invocations have kept are still in it
dedupeCandidatesSharedSeen(cands) ==
  DedupeFrom(cands, 1,
             UNION {{normalizeKey(calls[i].deduped[k].question) :
                       k \in 1..Len(calls[i].deduped)} :
                    i \in 1..Len(calls)})

\* dedupeCandidates (1221-1232)
dedupeCandidates(cands) == DedupeFrom(cands, 1, {})

(***************************************************************************)
(* Selection (src/server.js 849 and 1242-1266)                             *)
(***************************************************************************)
\* c put into a list sorted by score descending, before its equals: the
\* order an unstable sort may give
RECURSIVE InsertByScoreBeforeEquals(_, _)
InsertByScoreBeforeEquals(arr, c) ==
  IF arr = <<>> THEN <<c>>
  ELSE IF Head(arr).score > c.score
       THEN <<Head(arr)>> \o InsertByScoreBeforeEquals(Tail(arr), c)
       ELSE <<c>> \o arr

\* c put into a list sorted by score descending, after its equals
RECURSIVE InsertByScore(_, _)
InsertByScore(arr, c) ==
  IF arr = <<>> THEN <<c>>
  ELSE IF Head(arr).score >= c.score
       THEN <<Head(arr)>> \o InsertByScore(Tail(arr), c)
       ELSE <<c>> \o arr

\* candidates.sort((a, b) => b.score - a.score) (849); Array.prototype.sort
\* is stable
RECURSIVE SortByScore(_)
SortByScore(cands) ==
  IF cands = <<>> THEN <<>>
  ELSE InsertByScore(SortByScore(SubSeq(cands, 1, Len(cands) - 1)),
                     cands[Len(cands)])

\* arr.slice(0, n) for an integer n
Slice0(arr, n) ==
  LET end == IF n < 0 THEN (IF Len(arr) + n < 0 THEN 0 ELSE Len(arr) + n)
             ELSE (IF n > Len(arr) THEN Len(arr) ELSE n)
  IN  SubSeq(arr, 1, end)

\* the positions, in order, of the candidates whose being a tf is isTf
RECURSIVE TypePositions(_, _, _)
TypePositions(cands, i, isTf) ==
  IF i > Len(cands) THEN <<>>
  ELSE (IF (cands[i].type = "tf") = isTf THEN <<i>> ELSE <<>>)
       \o TypePositions(cands, i + 1, isTf)

\* the positions of cands from i on that are not among pickedPos: the
\* objects x with !picked.includes(x) (1261)
RECURSIVE RemainPositions(_, _, _)
RemainPositions(n, i, pickedPos) ==
  IF i > n THEN <<>>
  ELSE (IF \E k \in 1..Len(pickedPos) : pickedPos[k] = i THEN <<>> ELSE <<i>>)
       \o RemainPositions(n, i + 1, pickedPos)

\* pickWithVariety whose backfill takes from all of cands, the filter
\* !picked.includes(x) of line 1261 left out
PickPositionsRefill(cands, limit, allowTF) ==
  LET all     == [i \in 1..Len(cands) |-> i]
      tf      == TypePositions(cands, 1, TRUE)
      other   == TypePositions(cands, 1, FALSE)
      tfLimit == IF limit \div 5 < 0 THEN 0 ELSE limit \div 5
      first   == Slice0(other, limit - tfLimit) \o Slice0(tf, tfLimit)
      filled  == IF Len(first) < limit
                 THEN first \o Slice0(all, limit - Len(first))
                 ELSE first
  IN  IF ~allowTF THEN Slice0(all, limit) ELSE Slice0(filled, limit)

\* pickWithVariety without the backfill of lines 1260-1263
PickPositionsNoBackfill(cands, limit, allowTF) ==
  LET all     == [i \in 1..Len(cands) |-> i]
      tf      == TypePositions(cands, 1, TRUE)
      other   == TypePositions(cands, 1, FALSE)
      tfLimit == IF limit \div 5 < 0 THEN 0 ELSE limit \div 5
      first   == Slice0(other, limit - tfLimit) \o Slice0(tf, tfLimit)
  IN  IF ~allowTF THEN Slice0(all, limit) ELSE Slice0(first, limit)

\* pickWithVariety pushing the tf candidates before the others, lines 1256
\* and 1257 exchanged
PickPositionsTfFirst(cands, limit, allowTF) ==
  LET all     == [i \in 1..Len(cands) |-> i]
      tf      == TypePositions(cands, 1, TRUE)
      other   == TypePositions(cands, 1, FALSE)
      tfLimit == IF limit \div 5 < 0 THEN 0 ELSE limit \div 5
      first   == Slice0(tf, tfLimit) \o Slice0(other, limit - tfLimit)
      remain  == RemainPositions(Len(cands), 1, first)
      filled  == IF Len(first) < limit
                 THEN first \o Slice0(remain, limit - Len(first))
                 ELSE first
  IN  IF ~allowTF THEN Slice0(all, limit) ELSE Slice0(filled, limit)

\* pickWithVariety with Math.ceil in the place of Math.floor at line 1253
PickPositionsCeil(cands, limit, allowTF) ==
  LET all     == [i \in 1..Len(cands) |-> i]
      tf      == TypePositions(cands, 1, TRUE)
      other   == TypePositions(cands, 1, FALSE)
      tfLimit == IF (limit + 4) \div 5 < 0 THEN 0 ELSE (limit + 4) \div 5
      first   == Slice0(other, limit - tfLimit) \o Slice0(tf, tfLimit)
      remain  == RemainPositions(Len(cands), 1, first)
      filled  == IF Len(first) < limit
                 THEN first \o Slice0(remain, limit - Len(first))
                 ELSE first
  IN  IF ~allowTF THEN Slice0(all, limit) ELSE Slice0(filled, limit)

\* pickWithVariety (1242-1266) on the positions of cands: an object of the
\* array is known by its position, as Array.prototype.includes compares
\* objects by identity.  Math.floor(limit * 0.2) is limit \div 5.
PickPositions(cands, limit, allowTF) ==
  LET all     == [i \in 1..Len(cands) |-> i]
      tf      == TypePositions(cands, 1, TRUE)
      other   == TypePositions(cands, 1, FALSE)
      tfLimit == IF limit \div 5 < 0 THEN 0 ELSE limit \div 5
      first   == Slice0(other, limit - tfLimit) \o Slice0(tf, tfLimit)
      remain  == RemainPositions(Len(cands), 1, first)
      filled  == IF Len(first) < limit
                 THEN first \o Slice0(remain, limit - Len(first))
                 ELSE first
  IN  IF ~allowTF THEN Slice0(all, limit) ELSE Slice0(filled, limit)

\* pickWithVariety cutting at limit + 1
pickWithVarietyOneMore(cands, limit, allowTF) ==
  LET pos == PickPositions(cands, limit + 1, allowTF)
  IN  [k \in 1..Len(pos) |-> cands[pos[k]]]

pickWithVariety(cands, limit, allowTF) ==
  LET pos == PickPositions(cands, limit, allowTF)
  IN  [k \in 1..Len(pos) |-> cands[pos[k]]]

\* lines 855-860: the rows handed to the caller.  Every candidate carries a
\* number as source_line, so typeof c.source_line === "number" holds.
FormatItem(c) ==
  [type |-> IF c.type = "" THEN "short" ELSE c.type,
   question |-> c.question, answer |-> c.answer,
   source_line |-> c.source_line]

(***************************************************************************)
(* Inputs.  The kanji of the tokens:                                       *)
(*   K_age 挙  K_ato 後  K_atsu 圧  K_ban 番  K_body 体  K_bou 胞  K_bun 分      *)
(*   K_butsu 物  K_chou 徴  K_dai 大  K_dai_n 第  K_do 度  K_ei 栄  K_fu 不      *)
(*   K_gen 減  K_go 誤  K_gou 合  K_gyou 業  K_hatsu 発  K_hitsu 必             *)
(*   K_hon 本  K_hyou 表  K_in 因  K_jitsu 実  K_ju 授  K_jun 順  K_juu 重       *)
(*   K_ka 果  K_kan 関  K_kei 係  K_ken 験  K_ketsu 結  K_ki 気  K_kotae 答      *)
(*   K_koto 事  K_kou 光  K_kusari 鎖  K_kuwa 加  K_mei 明  K_mizu 水           *)
(*   K_nani 何  K_naru 成  K_netsu 熱  K_noboru 昇  K_omo 主  K_on 温           *)
(*   K_rui 類  K_ryoku 力  K_ryou 量  K_sa 差  K_sai 最  K_sai_f 細             *)
(*   K_saku 作  K_sasu 指  K_sei 正  K_setsu 説  K_shitsu 質  K_shoku 植        *)
(*   K_shou 少  K_shou_ch 章  K_small 小  K_so 素  K_soku 速  K_son 存          *)
(*   K_sou 相  K_sugi 過  K_tai 対  K_te 手  K_tei 程  K_toku 特  K_tsugi 次     *)
(*   K_tsukau 使  K_two 二  K_ue 上  K_yashinau 養  K_you 要  K_zai 在          *)
(*   K_zou 増                                                              *)
(***************************************************************************)
\* "" (an empty line)
LBlank ==
  <<>>

\* a fence of three backticks
LFence ==
  <<"BTICK", "BTICK", "BTICK">>

\* "# 第1章"
LHeading ==
  <<"#", " ", "K_dai_n", "1", "K_shou_ch">>

\* "相対速度とは、二つの物体の速度の差である。"
LDefJa ==
  <<"K_sou", "K_tai", "K_soku", "K_do", "h_to", "h_ha", "@,", "K_two",
    "h_tsu", "h_no", "K_butsu", "K_body", "h_no", "K_soku", "K_do", "h_no",
    "K_sa", "h_de", "h_a", "h_ru", "@.">>

\* "DNAとは、2本鎖の重要な物質である。"
LDefDna ==
  <<"D", "N", "A", "h_to", "h_ha", "@,", "2", "K_hon", "K_kusari", "h_no",
    "K_juu", "K_you", "h_na", "K_butsu", "K_shitsu", "h_de", "h_a", "h_ru",
    "@.">>

\* "RNA とは 1本鎖の物質のこと"
LDefRna ==
  <<"R", "N", "A", " ", "h_to", "h_ha", " ", "1", "K_hon", "K_kusari",
    "h_no", "K_butsu", "K_shitsu", "h_no", "h_ko", "h_to">>

\* "This note has no pattern." (25 characters)
LPlain ==
  <<"T", "h", "i", "s", " ", "n", "o", "t", "e", " ", "h", "a", "s", " ",
    "n", "o", " ", "p", "a", "t", "t", "e", "r", "n", ".">>

\* U+200B followed by three backticks
LZwFence ==
  <<"ZWSP", "BTICK", "BTICK", "BTICK">>

\* "a", a tab, "https://x.jp/", a blank
LTabUrl ==
  <<"a", "TAB", "h", "t", "t", "p", "s", ":", "/", "/", "x", ".", "j", "p",
    "/", " ">>


\* the lines a note body is made of
LinePool ==
  {LBlank, LFence, LHeading, LDefJa, LDefDna, LDefRna, LPlain, LZwFence,
   LTabUrl}

\* the lines of the longer, structured bodies
DocPool == {LBlank, LFence, LHeading, LDefDna, LDefRna}

\* most lines of a body over LinePool
MaxLines == 2

\* most lines of a body over DocPool
MaxDocLines == 4

\* largest limit tried besides the default one
MaxLimit == 2

\* the defaults of lines 820-821
DefaultLimit == 20

DefaultMinScore == 3

\* the sequences of 1 to n elements of the set S
RECURSIVE SeqsUpTo(_, _)
SeqsUpTo(S, n) ==
  IF n = 0 THEN {}
  ELSE {<<x>> : x \in S}
         \cup {Append(t, x) : t \in SeqsUpTo(S, n - 1), x \in S}

\* lines.join("\n"): the note body whose lines are ls
BodyOf(ls) == Join(ls, <<"LF">>)

DefaultOptions ==
  [limit |-> DefaultLimit, minScore |-> DefaultMinScore,
   allowTrueFalse |-> TRUE]

\* the options a caller passes (spread over the defaults at 819-824)
OptionSets ==
  [limit : (0..MaxLimit) \cup {DefaultLimit},
   minScore : {DefaultMinScore, 6},
   allowTrueFalse : BOOLEAN]

(***************************************************************************)
(* The HTTP API over the tables communities, user_communities and notes    *)
(* (src/server.js 129-141, 215-249 and 488-811).  A request carries the    *)
(* user id of its session, 0 when nobody is logged in; a column that is    *)
(* NULL holds 0.  The ids of communities and notes are AUTO_INCREMENT      *)
(* keys: they grow and are never used again.  As the header (7-11) and     *)
(* line 581 say of the schema, deleting a community deletes its            *)
(* user_communities rows (CASCADE) and sets notes.community_id to NULL.    *)
(***************************************************************************)
\* the registered users
Users == {1, 2}

\* most communities and most notes ever created
MaxCommunities == 1

MaxNotes == 1

\* the values a request gives for visibility
VisibilityInputs == {"private", "public", "Private"}

\* the tables before any request
EmptyDb ==
  [users |-> Users, communities |-> {}, user_communities |-> {},
   notes |-> {}, lastCommunityId |-> 0, lastNoteId |-> 0]

\* a response: the route, the session's user, the id and the value of the
\* request, the status and the rows of the body
Response(op, user, id, arg, status, body) ==
  [op |-> op, user |-> user, id |-> id, arg |-> arg, status |-> status,
   body |-> body]

NoResponse == Response("", 0, 0, "", 0, {})

\* the sessions a request can carry: one of an existing user, or none
Sessions == db.users \cup {0}

\* normalizeVisibility (139-141)
normalizeVisibility(v) == IF v = "private" THEN "private" ELSE "public"

\* userBelongsToCommunity (152-161)
userBelongsToCommunity(userId, communityId) ==
  \E m \in db.user_communities :
    m.user_id = userId /\ m.community_id = communityId

\* getNoteById (215-218): the rows of notes with the id noteId
getNoteById(noteId) == {n \in db.notes : n.id = noteId}

\* canViewNote without the community rule of lines 236-241: the visibility
\* alone decides
canViewNoteByVisibility(user, note) ==
  IF note.visibility = "private"
    THEN IF user = 0 THEN 401
         ELSE IF note.user_id # user THEN 403
         ELSE 200
  ELSE 200

\* canViewNote (233-249): the status it answers for an existing note, 200
\* standing for ok
canViewNote(user, note) ==
  IF note.community_id # 0
    THEN IF user = 0 THEN 401
         ELSE IF ~userBelongsToCommunity(user, note.community_id) THEN 403
         ELSE 200
  ELSE IF note.visibility = "private"
    THEN IF user = 0 THEN 401
         ELSE IF note.user_id # user THEN 403
         ELSE 200
  ELSE 200

\* the pipeline is not running while the API is observed
PipelineIdle ==
  UNCHANGED <<pc, bodyRaw, opts, normalized, units, extracted, scored,
              deduped, sorted, picked, result, calls>>

\* a request that leaves the tables alone
Answer(op, user, id, arg, status, body) ==
  /\ res' = Response(op, user, id, arg, status, body)
  /\ UNCHANGED db
  /\ PipelineIdle

\* a request that changes the tables
Commit(op, user, id, arg, status, newDb) ==
  /\ res' = Response(op, user, id, arg, status, {})
  /\ db' = newDb
  /\ PipelineIdle

\* POST /api/communities (490-524): the creator joins as admin
CreateCommunity ==
  \E u \in Sessions :
    LET op == "POST /api/communities"
        id == db.lastCommunityId + 1
    IN  IF u = 0 THEN Answer(op, u, 0, "", 401, {})
        ELSE \/ Answer(op, u, 0, "", 400, {})
             \/ /\ db.lastCommunityId < MaxCommunities
                /\ Commit(op, u, id, "", 201,
                     [db EXCEPT !.communities = @ \cup {id},
                                !.user_communities = @ \cup
                                  {[user_id |-> u, community_id |-> id,
                                    role |-> "admin"]},
                                !.lastCommunityId = id])

\* POST /api/communities/join (527-549); codeOk is bcrypt.compare's answer
JoinCommunity ==
  \E u \in Sessions :
    LET op == "POST /api/communities/join"
    IN  IF u = 0 THEN Answer(op, u, 0, "", 401, {})
        ELSE \E c \in 0..MaxCommunities, codeOk \in BOOLEAN :
          IF c = 0 THEN Answer(op, u, c, "", 400, {})
          ELSE IF c \notin db.communities THEN Answer(op, u, c, "", 404, {})
          ELSE IF ~codeOk THEN Answer(op, u, c, "", 403, {})
          ELSE Commit(op, u, c, "", 200,
                 [db EXCEPT !.user_communities =
                    IF userBelongsToCommunity(u, c) THEN @
                    ELSE @ \cup {[user_id |-> u, community_id |-> c,
                                  role |-> "member"]}])

\* DELETE /api/communities/:id (565-588).  The route is registered a second
\* time at 1379-1408, with a handler that deletes the notes of the community
\* first; Express runs the handlers of a route in the order of their
\* registration and this one answers every request without calling next(),
\* so the second handler never runs.
DeleteCommunity ==
  \E u \in Sessions :
    LET op == "DELETE /api/communities/:id"
    IN  IF u = 0 THEN Answer(op, u, 0, "", 401, {})
        ELSE \E c \in 0..MaxCommunities :
          LET rows == {m \in db.user_communities :
                         m.user_id = u /\ m.community_id = c}
          IN  IF c = 0 THEN Answer(op, u, c, "", 400, {})
              ELSE IF rows = {} THEN Answer(op, u, c, "", 403, {})
              ELSE IF \E m \in rows : m.role # "admin"
                THEN Answer(op, u, c, "", 403, {})
              ELSE IF c \notin db.communities
                THEN Answer(op, u, c, "", 404, {})
              ELSE Commit(op, u, c, "", 200,
                     [db EXCEPT !.communities = @ \ {c},
                                !.user_communities =
                                  {m \in @ : m.community_id # c},
                                !.notes =
                                  {IF n.community_id = c
                                     THEN [n EXCEPT !.community_id = 0]
                                     ELSE n : n \in @}])

\* GET /api/notes (594-625), for the one university of the model: the public
\* notes outside every community
ListNotes ==
  \E u \in Sessions :
    Answer("GET /api/notes", u, 0, "", 200,
           {n \in db.notes : n.visibility = "public" /\ n.community_id = 0})

\* GET /api/notes/:id (658-668)
GetNote ==
  \E u \in Sessions, id \in 1..MaxNotes :
    LET op == "GET /api/notes/:id"
        rows == getNoteById(id)
    IN  IF rows = {} THEN Answer(op, u, id, "", 404, {})
        ELSE \E note \in rows :
               IF canViewNote(u, note) # 200
                 THEN Answer(op, u, id, "", canViewNote(u, note), {})
               ELSE Answer(op, u, id, "", 200, {note})

\* POST /api/notes (684-738)
PostNote ==
  \E u \in Sessions :
    LET op == "POST /api/notes"
        id == db.lastNoteId + 1
    IN  IF u = 0 THEN Answer(op, u, 0, "", 401, {})
        ELSE \/ Answer(op, u, 0, "", 400, {})
             \/ \E c \in 0..MaxCommunities, v \in VisibilityInputs :
                  IF c # 0 /\ ~userBelongsToCommunity(u, c)
                    THEN Answer(op, u, c, v, 403, {})
                  ELSE /\ db.lastNoteId < MaxNotes
                       /\ Commit(op, u, id, v, 201,
                            [db EXCEPT
                               !.notes = @ \cup
                                 {[id |-> id, user_id |-> u,
                                   community_id |-> c,
                                   visibility |-> normalizeVisibility(v)]},
                               !.lastNoteId = id])

\* DELETE /api/notes/:id (756-768)
DeleteNote ==
  \E u \in Sessions :
    LET op == "DELETE /api/notes/:id"
    IN  IF u = 0 THEN Answer(op, u, 0, "", 401, {})
        ELSE \E id \in 1..MaxNotes :
          LET rows == getNoteById(id)
          IN  IF rows = {} THEN Answer(op, u, id, "", 404, {})
              ELSE IF \E note \in rows : note.user_id # u
                THEN Answer(op, u, id, "", 403, {})
              ELSE Commit(op, u, id, "", 200,
                          [db EXCEPT !.notes = @ \ rows])

\* PATCH /api/notes/:id/visibility without the test of community_id at
\* lines 784-786
PatchVisibilityCommunityToo ==
  \E u \in Sessions :
    LET op == "PATCH /api/notes/:id/visibility"
    IN  IF u = 0 THEN Answer(op, u, 0, "", 401, {})
        ELSE \E id \in 1..MaxNotes, v \in VisibilityInputs :
          LET vis == IF v = "private" THEN "private" ELSE "public"
              rows == getNoteById(id)
          IN  IF rows = {} THEN Answer(op, u, id, v, 404, {})
              ELSE IF \E note \in rows : note.user_id # u
                THEN Answer(op, u, id, v, 403, {})
              ELSE Commit(op, u, id, v, 200,
                     [db EXCEPT !.notes =
                        {IF n.id = id THEN [n EXCEPT !.visibility = vis]
                         ELSE n : n \in @}])

\* PATCH /api/notes/:id/visibility (772-790)
PatchVisibility ==
  \E u \in Sessions :
    LET op == "PATCH /api/notes/:id/visibility"
    IN  IF u = 0 THEN Answer(op, u, 0, "", 401, {})
        ELSE \E id \in 1..MaxNotes, v \in VisibilityInputs :
          LET vis == IF v = "private" THEN "private" ELSE "public"
              rows == getNoteById(id)
          IN  IF rows = {} THEN Answer(op, u, id, v, 404, {})
              ELSE IF \E note \in rows : note.user_id # u
                THEN Answer(op, u, id, v, 403, {})
              ELSE IF \E note \in rows : note.community_id # 0
                THEN Answer(op, u, id, v, 400, {})
              ELSE Commit(op, u, id, v, 200,
                     [db EXCEPT !.notes =
                        {IF n.id = id THEN [n EXCEPT !.visibility = vis]
                         ELSE n : n \in @}])

\* GET /api/notes/:id/quizzes (795-811); the rows of note_quizzes are not
\* part of the model
GetQuizzes ==
  \E u \in Sessions, id \in 1..MaxNotes :
    LET op == "GET /api/notes/:id/quizzes"
        rows == getNoteById(id)
    IN  IF rows = {} THEN Answer(op, u, id, "", 404, {})
        ELSE \E note \in rows :
               Answer(op, u, id, "", canViewNote(u, note), {})

\* DELETE /api/account (1320-1347): the user's notes, memberships and row
\* are deleted and the session is destroyed
DeleteAccount ==
  \E u \in Sessions :
    LET op == "DELETE /api/account"
    IN  IF u = 0 THEN Answer(op, u, 0, "", 401, {})
        ELSE Commit(op, u, 0, "", 200,
               [db EXCEPT !.notes = {n \in @ : n.user_id # u},
                          !.user_communities = {m \in @ : m.user_id # u},
                          !.users = @ \ {u}])

InitWeb ==
  /\ pc = "called"
  /\ bodyRaw = <<>>
  /\ opts = DefaultOptions
  /\ normalized = <<>>
  /\ units = <<>>
  /\ extracted = <<>>
  /\ scored = <<>>
  /\ deduped = <<>>
  /\ sorted = <<>>
  /\ picked = <<>>
  /\ result = <<>>
  /\ calls = <<>>
  /\ db = EmptyDb
  /\ res = NoResponse

NextWeb ==
  \/ CreateCommunity
  \/ JoinCommunity
  \/ DeleteCommunity
  \/ ListNotes
  \/ GetNote
  \/ PostNote
  \/ DeleteNote
  \/ PatchVisibility
  \/ GetQuizzes
  \/ DeleteAccount

SpecWeb == InitWeb /\ [][NextWeb]_vars

(***************************************************************************)
(* generateQuizzesFromBodyRaw (src/server.js 818-861) as a state machine:  *)
(* one step per statement of the function.                                 *)
(***************************************************************************)
\* a call generateQuizzesFromBodyRaw(bodyRaw, options) about to run
Called(body, options) ==
  /\ pc = "called"
  /\ bodyRaw = body
  /\ opts = options
  /\ normalized = <<>>
  /\ units = <<>>
  /\ extracted = <<>>
  /\ scored = <<>>
  /\ deduped = <<>>
  /\ sorted = <<>>
  /\ picked = <<>>
  /\ result = <<>>
  /\ calls = <<>>
  /\ db = EmptyDb
  /\ res = NoResponse

Init ==
  \E ls \in SeqsUpTo(LinePool, MaxLines), options \in OptionSets :
    Called(BodyOf(ls), options)

InitDoc ==
  \E ls \in SeqsUpTo(DocPool, MaxDocLines) : Called(BodyOf(ls), DefaultOptions)

\* lines 826-827; the ReferenceError of line 888 leaves the function
NormalizeLines ==
  /\ pc = "called"
  /\ LET r == normalizeLines(SplitLines(bodyRaw))
     IN  /\ normalized' = r.out
         /\ pc' = IF r.threw THEN "threw" ELSE "normalized"
  /\ UNCHANGED <<calls, db, res>>
  /\ UNCHANGED <<bodyRaw, opts, units, extracted, scored, deduped, sorted,
                 picked, result>>

\* line 830
ToUnits ==
  /\ pc = "normalized"
  /\ units' = toUnits(normalized)
  /\ pc' = "units"
  /\ UNCHANGED <<calls, db, res>>
  /\ UNCHANGED <<bodyRaw, opts, normalized, extracted, scored, deduped,
                 sorted, picked, result>>

\* lines 833-837
Extract ==
  /\ pc = "units"
  /\ extracted' = ExtractAll(units)
  /\ pc' = "extracted"
  /\ UNCHANGED <<calls, db, res>>
  /\ UNCHANGED <<bodyRaw, opts, normalized, units, scored, deduped, sorted,
                 picked, result>>

\* lines 840-843
ScoreFilter ==
  /\ pc = "extracted"
  /\ scored' = ScoreAndFilter(extracted, opts.minScore)
  /\ pc' = "scored"
  /\ UNCHANGED <<calls, db, res>>
  /\ UNCHANGED <<bodyRaw, opts, normalized, units, extracted, deduped,
                 sorted, picked, result>>

\* line 846
Dedupe ==
  /\ pc = "scored"
  /\ deduped' = dedupeCandidates(scored)
  /\ pc' = "deduped"
  /\ UNCHANGED <<calls, db, res>>
  /\ UNCHANGED <<bodyRaw, opts, normalized, units, extracted, scored, sorted,
                 picked, result>>

\* line 849
Sort ==
  /\ pc = "deduped"
  /\ sorted' = SortByScore(deduped)
  /\ pc' = "sorted"
  /\ UNCHANGED <<calls, db, res>>
  /\ UNCHANGED <<bodyRaw, opts, normalized, units, extracted, scored,
                 deduped, picked, result>>

\* line 852
Pick ==
  /\ pc = "sorted"
  /\ picked' = pickWithVariety(sorted, opts.limit, opts.allowTrueFalse)
  /\ pc' = "picked"
  /\ UNCHANGED <<calls, db, res>>
  /\ UNCHANGED <<bodyRaw, opts, normalized, units, extracted, scored,
                 deduped, sorted, result>>

\* lines 855-860
Return ==
  /\ pc = "picked"
  /\ result' = [k \in 1..Len(picked) |-> FormatItem(picked[k])]
  /\ pc' = "returned"
  /\ UNCHANGED <<calls, db, res>>
  /\ UNCHANGED <<bodyRaw, opts, normalized, units, extracted, scored,
                 deduped, sorted, picked>>

Next ==
  \/ NormalizeLines
  \/ ToUnits
  \/ Extract
  \/ ScoreFilter
  \/ Dedupe
  \/ Sort
  \/ Pick
  \/ Return

Spec == Init /\ [][Next]_vars

SpecDoc == InitDoc /\ [][Next]_vars

(***************************************************************************)
(* The stages after the extraction, on synthesized candidates: scoring,    *)
(* filtering, deduplication and selection are functions of the candidate   *)
(* list alone.                                                             *)
(***************************************************************************)
\* fill / def: "「DNA」とは何か？" -> "2本鎖の物質"
SDef ==
  [type |-> "fill",
   question |->
    <<"@[", "D", "N", "A", "@]", "h_to", "h_ha", "K_nani", "h_ka", "@?">>,
   answer |->
    <<"2", "K_hon", "K_kusari", "h_no", "K_butsu", "K_shitsu">>,
   source_line |-> 1, meta |-> [kind |-> "def"]]

\* fill / def_blank: "【第1章】DNAとは、（　　　）である" -> "2本鎖の物質"
SBlank ==
  [type |-> "fill",
   question |->
    <<"@<", "K_dai_n", "1", "K_shou_ch", "@>", "D", "N", "A", "h_to",
      "h_ha", "@,", "@(", "@ ", "@ ", "@ ", "@)", "h_de", "h_a", "h_ru">>,
   answer |->
    <<"2", "K_hon", "K_kusari", "h_no", "K_butsu", "K_shitsu">>,
   source_line |-> 1, meta |-> [kind |-> "def_blank"]]

\* short / list: "【第2章】「 DNA 」とは何か？" -> "A / B / C"
SListDup ==
  [type |-> "short",
   question |->
    <<"@<", "K_dai_n", "2", "K_shou_ch", "@>", "@[", " ", "D", "N", "A",
      " ", "@]", "h_to", "h_ha", "K_nani", "h_ka", "@?">>,
   answer |->
    <<"A", " ", "/", " ", "B", " ", "/", " ", "C">>,
   source_line |-> 2, meta |-> [kind |-> "list"]]

\* tf / tf: "正しい？誤り？：「DNAとは1本鎖である」" -> "誤り(False)"
STfFalse ==
  [type |-> "tf",
   question |->
    <<"K_sei", "h_shi", "h_i", "@?", "K_go", "h_ri", "@?", "@:", "@[", "D",
      "N", "A", "h_to", "h_ha", "1", "K_hon", "K_kusari", "h_de", "h_a",
      "h_ru", "@]">>,
   answer |->
    <<"K_go", "h_ri", "(", "F", "a", "l", "s", "e", ")">>,
   source_line |-> 3, meta |-> [kind |-> "tf"]]

\* tf / tf: "正しい？誤り？：「DNAとは2本鎖である」" -> "正しい(True)"
STfTrue ==
  [type |-> "tf",
   question |->
    <<"K_sei", "h_shi", "h_i", "@?", "K_go", "h_ri", "@?", "@:", "@[", "D",
      "N", "A", "h_to", "h_ha", "2", "K_hon", "K_kusari", "h_de", "h_a",
      "h_ru", "@]">>,
   answer |->
    <<"K_sei", "h_shi", "h_i", "(", "T", "r", "u", "e", ")">>,
   source_line |-> 3, meta |-> [kind |-> "tf"]]

\* tf / tf: "【第1章】正しい？誤り？：「RNAとは1本鎖である」" -> "正しい(True)"
STfHead ==
  [type |-> "tf",
   question |->
    <<"@<", "K_dai_n", "1", "K_shou_ch", "@>", "K_sei", "h_shi", "h_i",
      "@?", "K_go", "h_ri", "@?", "@:", "@[", "R", "N", "A", "h_to",
      "h_ha", "1", "K_hon", "K_kusari", "h_de", "h_a", "h_ru", "@]">>,
   answer |->
    <<"K_sei", "h_shi", "h_i", "(", "T", "r", "u", "e", ")">>,
   source_line |-> 4, meta |-> [kind |-> "tf"]]

\* fill / def: "DNAとは？" -> "2本鎖の物質"
SShortQ ==
  [type |-> "fill",
   question |->
    <<"D", "N", "A", "h_to", "h_ha", "@?">>,
   answer |->
    <<"2", "K_hon", "K_kusari", "h_no", "K_butsu", "K_shitsu">>,
   source_line |-> 5, meta |-> [kind |-> "def"]]

\* short / cause: "次の因果関係を答えよ：CO2の増加 → ？" -> "温度が1度上昇する"
SCause ==
  [type |-> "short",
   question |->
    <<"K_tsugi", "h_no", "K_in", "K_ka", "K_kan", "K_kei", "h_wo",
      "K_kotae", "h_e", "h_yo", "@:", "C", "O", "2", "h_no", "K_zou",
      "K_kuwa", " ", "->", " ", "@?">>,
   answer |->
    <<"K_on", "K_do", "h_ga", "1", "K_do", "K_ue", "K_noboru", "h_su",
      "h_ru">>,
   source_line |-> 6, meta |-> [kind |-> "cause"]]

\* short / class2: "RNAは何と何に分かれる？" -> "mRNA と tRNA"
SClass ==
  [type |-> "short",
   question |->
    <<"R", "N", "A", "h_ha", "K_nani", "h_to", "K_nani", "h_ni", "K_bun",
      "h_ka", "h_re", "h_ru", "@?">>,
   answer |->
    <<"m", "R", "N", "A", " ", "h_to", " ", "t", "R", "N", "A">>,
   source_line |-> 7, meta |-> [kind |-> "class2"]]

\* the synthesized candidates, in the order the sub-lists are taken from
CandPool ==
  <<SDef, SBlank, SListDup, STfFalse, STfTrue,
    STfHead, SShortQ, SCause, SClass>>

\* most candidates of a synthesized list
MaxCands == 6

\* largest limit tried on a synthesized list
MaxPickLimit == 5

\* the elements of arr at the positions S, in the order of arr
RECURSIVE SubList(_, _, _)
SubList(arr, S, i) ==
  IF i > Len(arr) THEN <<>>
  ELSE (IF i \in S THEN <<arr[i]>> ELSE <<>>) \o SubList(arr, S, i + 1)

\* arr.reverse()
RECURSIVE Reverse(_)
Reverse(arr) ==
  IF arr = <<>> THEN <<>> ELSE Append(Reverse(Tail(arr)), Head(arr))

\* the candidate lists of at most MaxCands elements: the sub-lists of
\* CandPool, in its order and in the opposite order
CandLists ==
  LET sub == {SubList(CandPool, S, 1) :
                S \in {T \in SUBSET (1..Len(CandPool)) : Cardinality(T) <= MaxCands}}
  IN  sub \cup {Reverse(l) : l \in sub}

\* the statement 839 reached with the candidates cands (the extraction of
\* some body having produced them)
InitCand ==
  \E cands \in CandLists, lim \in 0..MaxPickLimit, allow \in BOOLEAN :
    /\ pc = "extracted"
    /\ bodyRaw = <<>>
    /\ opts = [limit |-> lim, minScore |-> DefaultMinScore,
               allowTrueFalse |-> allow]
    /\ normalized = <<>>
    /\ units = <<>>
    /\ extracted = cands
    /\ scored = <<>>
    /\ deduped = <<>>
    /\ sorted = <<>>
    /\ picked = <<>>
    /\ result = <<>>
    /\ calls = <<>>
    /\ db = EmptyDb
    /\ res = NoResponse

\* the statement 839 reached with the candidates cands and a configured
\* minScore
InitCandMin ==
  \E cands \in CandLists, lim \in 0..MaxPickLimit, allow \in BOOLEAN,
     ms \in {DefaultMinScore, 5} :
    /\ pc = "extracted"
    /\ bodyRaw = <<>>
    /\ opts = [limit |-> lim, minScore |-> ms, allowTrueFalse |-> allow]
    /\ normalized = <<>>
    /\ units = <<>>
    /\ extracted = cands
    /\ scored = <<>>
    /\ deduped = <<>>
    /\ sorted = <<>>
    /\ picked = <<>>
    /\ result = <<>>
    /\ calls = <<>>
    /\ db = EmptyDb
    /\ res = NoResponse

NextCand ==
  \/ ScoreFilter
  \/ Dedupe
  \/ Sort
  \/ Pick
  \/ Return

SpecCand == InitCand /\ [][NextCand]_vars

SpecCandMin == InitCandMin /\ [][NextCand]_vars

(***************************************************************************)
(* Candidates for the scoring: one for every term of scoreCandidate        *)
(* (1162-1194) and every branch of lengthScore (1196-1200).                *)
(***************************************************************************)
\* the candidates of the scoring
ScorePool ==
  LET
    \* short / steps: "この手順を順番に説明せよ：A → B → C" -> "A → B → C"
    SStepsDemoQ ==
      [type |-> "short",
       question |->
        <<"h_ko", "h_no", "K_te", "K_jun", "h_wo", "K_jun", "K_ban", "h_ni",
          "K_setsu", "K_mei", "h_se", "h_yo", "@:", "A", " ", "->", " ", "B",
          " ", "->", " ", "C">>,
       answer |->
        <<"A", " ", "->", " ", "B", " ", "->", " ", "C">>,
       source_line |-> 1, meta |-> [kind |-> "steps"]]

    \* short / list: "DNAの（主な）ポイントを挙げよ" -> "A / それ / C"
    SListDemoA ==
      [type |-> "short",
       question |->
        <<"D", "N", "A", "h_no", "@(", "K_omo", "h_na", "@)", "k_po", "k_i",
          "k_n", "k_to", "h_wo", "K_age", "h_ge", "h_yo">>,
       answer |->
        <<"A", " ", "/", " ", "h_so", "h_re", " ", "/", " ", "C">>,
       source_line |-> 2, meta |-> [kind |-> "list"]]

    \* fill / def: "「RNA２」とは何か？" -> "abcdefg"
    SFullDigit ==
      [type |-> "fill",
       question |->
        <<"@[", "R", "N", "A", "@2", "@]", "h_to", "h_ha", "K_nani", "h_ka",
          "@?">>,
       answer |->
        <<"a", "b", "c", "d", "e", "f", "g">>,
       source_line |-> 3, meta |-> [kind |-> "def"]]

    \* fill / def_blank: a question of 93 characters -> "abcdefg"
    SLongQ ==
      [type |-> "fill",
       question |-> <<"D", "N", "A">> \o [i \in 1..90 |-> "K_dai"],
       answer |->
        <<"a", "b", "c", "d", "e", "f", "g">>,
       source_line |-> 4, meta |-> [kind |-> "def_blank"]]

    \* short / class2: "RNAは何と何に分かれる？" -> an answer of 121 characters
    SLongA ==
      [type |-> "short",
       question |->
        <<"R", "N", "A", "h_ha", "K_nani", "h_to", "K_nani", "h_ni", "K_bun",
          "h_ka", "h_re", "h_ru", "@?">>,
       answer |-> <<"m">> \o [i \in 1..120 |-> "K_dai"],
       source_line |-> 5, meta |-> [kind |-> "class2"]]

    \* short / (a kind without base points): "DNA abcdefghijkl" -> "abcdefg"
    SOtherKind ==
      [type |-> "short",
       question |->
        <<"D", "N", "A", " ", "a", "b", "c", "d", "e", "f", "g", "h", "i", "j",
          "k", "l">>,
       answer |->
        <<"a", "b", "c", "d", "e", "f", "g">>,
       source_line |-> 6, meta |-> [kind |-> "note"]]
  IN
    {SDef, SBlank, SListDup, STfHead, SCause, SClass, SStepsDemoQ, SListDemoA,
     SFullDigit, SLongQ, SLongA, SOtherKind}


\* most candidates of a list over ScorePool
MaxScoreCands == 2

\* the statement 839 reached with candidates of ScorePool, under the default
\* minScore and under one that no score falls below
InitScore ==
  \E cands \in SeqsUpTo(ScorePool, MaxScoreCands),
     ms \in {DefaultMinScore, -10} :
    /\ pc = "extracted"
    /\ bodyRaw = <<>>
    /\ opts = [limit |-> DefaultLimit, minScore |-> ms,
               allowTrueFalse |-> TRUE]
    /\ normalized = <<>>
    /\ units = <<>>
    /\ extracted = cands
    /\ scored = <<>>
    /\ deduped = <<>>
    /\ sorted = <<>>
    /\ picked = <<>>
    /\ result = <<>>
    /\ calls = <<>>
    /\ db = EmptyDb
    /\ res = NoResponse

SpecScore == InitScore /\ [][NextCand]_vars

(***************************************************************************)
(* Bodies of sentences, one for each case of the extraction rules, of the  *)
(* fence test and of the sentence split, under the default options.        *)
(***************************************************************************)
\* "```js"
LFenceTag ==
  <<"BTICK", "BTICK", "BTICK", "j", "s">>

\* "```x``` is inline code"
LFenceInline ==
  <<"BTICK", "BTICK", "BTICK", "x", "BTICK", "BTICK", "BTICK", " ", "i",
    "s", " ", "i", "n", "l", "i", "n", "e", " ", "c", "o", "d", "e">>

\* "RNAとは大きな1本鎖である。"
LDefBig ==
  <<"R", "N", "A", "h_to", "h_ha", "K_dai", "h_ki", "h_na", "1", "K_hon",
    "K_kusari", "h_de", "h_a", "h_ru", "@.">>

\* "この授業の特徴は、実験、レポート、発表、グループワークがある。"
LListEx ==
  <<"h_ko", "h_no", "K_ju", "K_gyou", "h_no", "K_toku", "K_chou", "h_ha",
    "@,", "K_jitsu", "K_ken", "@,", "k_re", "k_po", "k_long", "k_to", "@,",
    "K_hatsu", "K_hyou", "@,", "k_gu", "k_ru", "k_long", "k_pu", "k_wa",
    "k_long", "k_ku", "h_ga", "h_a", "h_ru", "@.">>

\* "DNAの特徴は、A、T、G、Cがある。"
LListDna ==
  <<"D", "N", "A", "h_no", "K_toku", "K_chou", "h_ha", "@,", "A", "@,",
    "T", "@,", "G", "@,", "C", "h_ga", "h_a", "h_ru", "@.">>

\* "DNAの要素はA、T"
LListTwo ==
  <<"D", "N", "A", "h_no", "K_you", "K_so", "h_ha", "A", "@,", "T">>

\* "RNAにはA,B,C,D,E,F,G"
LListSeven ==
  <<"R", "N", "A", "h_ni", "h_ha", "A", ",", "B", ",", "C", ",", "D", ",",
    "E", ",", "F", ",", "G">>

\* "a|b。c|d"
LPipe ==
  <<"a", "|", "b", "@.", "c", "|", "d">>

\* "DNAは2本鎖と1本鎖に分類される"
LClassDna ==
  <<"D", "N", "A", "h_ha", "2", "K_hon", "K_kusari", "h_to", "1", "K_hon",
    "K_kusari", "h_ni", "K_bun", "K_rui", "h_sa", "h_re", "h_ru">>

\* "CO2の増加により温度が2度上昇する。"
LCauseCo2 ==
  <<"C", "O", "2", "h_no", "K_zou", "K_kuwa", "h_ni", "h_yo", "h_ri",
    "K_on", "K_do", "h_ga", "2", "K_do", "K_ue", "K_noboru", "h_su",
    "h_ru", "@.">>

\* "まず a / b , c"
LSteps ==
  <<"h_ma", "h_zu", " ", "a", " ", "/", " ", "b", " ", ",", " ", "c">>

\* "DNAとは、" followed by n times 大
LDefRun(n) ==
  <<"D", "N", "A", "h_to", "h_ha", "@,">> \o [i \in 1..n |-> "K_dai"]

\* a definition of 80 characters, the longest the tf rule takes (1107)
LDef80 == LDefRun(80)

\* a definition of 81 characters
LDef81 == LDefRun(81)

\* the lines of the bodies of sentences
TextPool ==
  {LFence, LFenceTag, LFenceInline, LDefJa, LDefDna, LDefRna, LDefBig,
   LDef80, LDef81, LListEx, LListDna, LListTwo, LListSeven, LPipe,
   LClassDna, LCauseCo2, LSteps}

\* most lines of a body over TextPool
MaxTextLines == 2

InitText ==
  \E ls \in SeqsUpTo(TextPool, MaxTextLines) :
    Called(BodyOf(ls), DefaultOptions)

SpecText == InitText /\ [][Next]_vars

(***************************************************************************)
(* Bodies of notes with bullet lists, under the default options.           *)
(***************************************************************************)
\* "- DNAとは、2本鎖の重要な物質である。"
LBulletDna ==
  <<"-", " ", "D", "N", "A", "h_to", "h_ha", "@,", "2", "K_hon",
    "K_kusari", "h_no", "K_juu", "K_you", "h_na", "K_butsu", "K_shitsu",
    "h_de", "h_a", "h_ru", "@.">>

\* "12.  RNA **b**" (a numbered bullet, emphasis marks in its body)
LBulletNum ==
  <<"1", "2", ".", " ", " ", "R", "N", "A", " ", "*", "*", "b", "*", "*">>

\* "- *" (a bullet whose cleaned body is empty)
LBulletEmpty ==
  <<"-", " ", "*">>

\* the lines of the notes with bullet lists
NotePool ==
  {LBlank, LFence, LHeading, LDefDna, LBulletDna, LBulletNum, LBulletEmpty}

\* most lines of a body over NotePool
MaxNoteLines == 3

InitNote ==
  \E ls \in SeqsUpTo(NotePool, MaxNoteLines) :
    Called(BodyOf(ls), DefaultOptions)

SpecNote == InitNote /\ [][Next]_vars

(***************************************************************************)
(* Several invocations in progress at once.  The function declares every   *)
(* value it works on with const or let inside its body (819-860) and the   *)
(* functions it calls do the same, so an invocation is its own activation  *)
(* record; the other invocations are suspended with theirs in calls and    *)
(* any of them may be the next to run a statement.                         *)
(***************************************************************************)
\* the whole function: the statements 826-860 one after the other
generateQuizzesFromBodyRaw(body, options) ==
  LET r == normalizeLines(SplitLines(body))
      cs == pickWithVariety(
              SortByScore(
                dedupeCandidates(
                  ScoreAndFilter(ExtractAll(toUnits(r.out)),
                                 options.minScore))),
              options.limit, options.allowTrueFalse)
  IN  [threw |-> r.threw,
       list |-> IF r.threw THEN <<>>
                ELSE [k \in 1..Len(cs) |-> FormatItem(cs[k])]]

\* the activation record of the invocation that is running
Frame ==
  [pc |-> pc, bodyRaw |-> bodyRaw, opts |-> opts, normalized |-> normalized,
   units |-> units, extracted |-> extracted, scored |-> scored,
   deduped |-> deduped, sorted |-> sorted, picked |-> picked,
   result |-> result]

\* the activation record of a call about to run
NewFrame(body, options) ==
  [pc |-> "called", bodyRaw |-> body, opts |-> options, normalized |-> <<>>,
   units |-> <<>>, extracted |-> <<>>, scored |-> <<>>, deduped |-> <<>>,
   sorted |-> <<>>, picked |-> <<>>, result |-> <<>>]

\* most invocations in progress at once
MaxCalls == 2

\* the arguments of the concurrent calls
ConcArgs ==
  {[body |-> LDefDna, options |-> DefaultOptions],
   [body |-> BodyOf(<<LDefDna, LDefRna>>),
    options |-> [limit |-> 1, minScore |-> DefaultMinScore,
                 allowTrueFalse |-> TRUE]],
   [body |-> LFence, options |-> DefaultOptions]}

InitConc ==
  \E a \in ConcArgs, others \in [1..(MaxCalls - 1) -> ConcArgs] :
    /\ pc = "called"
    /\ bodyRaw = a.body
    /\ opts = a.options
    /\ normalized = <<>>
    /\ units = <<>>
    /\ extracted = <<>>
    /\ scored = <<>>
    /\ deduped = <<>>
    /\ sorted = <<>>
    /\ picked = <<>>
    /\ result = <<>>
    /\ calls = [i \in 1..(MaxCalls - 1) |->
                 NewFrame(others[i].body, others[i].options)]
    /\ db = EmptyDb
    /\ res = NoResponse

\* another invocation runs next: the running one is suspended in its place
Switch ==
  \E i \in 1..Len(calls) :
    /\ calls' = [calls EXCEPT ![i] = Frame]
    /\ pc' = calls[i].pc
    /\ bodyRaw' = calls[i].bodyRaw
    /\ opts' = calls[i].opts
    /\ normalized' = calls[i].normalized
    /\ units' = calls[i].units
    /\ extracted' = calls[i].extracted
    /\ scored' = calls[i].scored
    /\ deduped' = calls[i].deduped
    /\ sorted' = calls[i].sorted
    /\ picked' = calls[i].picked
    /\ result' = calls[i].result
    /\ UNCHANGED <<db, res>>

NextConc ==
  \/ Next
  \/ Switch

SpecConc == InitConc /\ [][NextConc]_vars

(***************************************************************************)
(* Properties.                                                             *)
(***************************************************************************)
\* the number of elements of arr that have the type t
CountType(arr, t) == Cardinality({k \in 1..Len(arr) : arr[k].type = t})

\* the number of elements of arr that do not have the type t
CountNotType(arr, t) == Cardinality({k \in 1..Len(arr) : arr[k].type # t})

\* C1: for every input string, generateQuizzesFromBodyRaw returns a list and
\* never throws (stated as: the call never ends in an exception).
C1_NeverThrows == pc # "threw"

\* C2: for every input and every limit L, with allowTrueFalse true or
\* false, the returned list has at most L items.
C2_AtMostLimit == pc = "returned" => Len(result) <= opts.limit

\* C2, witness: more candidates than the limit were left after the sort and
\* the returned list was cut to the limit.
C2_Witness ==
  /\ pc = "returned"
  /\ opts.limit > 0
  /\ Len(sorted) > opts.limit
  /\ Len(result) = opts.limit

\* C3: no two items of the returned list have equal normalized questions;
\* in particular the backfill of the selector adds no item already picked.
C3_NoDuplicateKeys ==
  pc = "returned" =>
    \A i \in 1..Len(result) : \A j \in 1..Len(result) :
      i # j => normalizeKey(result[i].question)
                 # normalizeKey(result[j].question)

\* whether the backfill of lines 1260-1263 added at least one item
BackfillAdded ==
  LET tfLimit == opts.limit \div 5
      nOther  == CountNotType(sorted, "tf")
      nTf     == CountType(sorted, "tf")
      first   == (IF nOther < opts.limit - tfLimit THEN nOther
                  ELSE opts.limit - tfLimit)
                 + (IF nTf < tfLimit THEN nTf ELSE tfLimit)
  IN  opts.allowTrueFalse /\ Len(picked) > first

\* C3, witness: two candidates with the same normalized question passed the
\* filter, and the backfill added items to the returned list.
C3_Witness ==
  /\ pc = "returned"
  /\ \E i \in 1..Len(scored) : \E j \in 1..Len(scored) :
       i # j /\ normalizeKey(scored[i].question)
                  = normalizeKey(scored[j].question)
  /\ BackfillAdded

\* C4: with allowTrueFalse = true and limit L the result holds at most
\* floor(0.2 * L) tf items whenever at least L - floor(0.2 * L) non-tf
\* candidates survive filtering and dedup; more tf items than that appear
\* only when every surviving non-tf candidate is in the result too.
C4_TfCap ==
  (pc = "returned" /\ opts.allowTrueFalse) =>
    LET cap == opts.limit \div 5
    IN  /\ CountNotType(deduped, "tf") >= opts.limit - cap
             => CountType(result, "tf") <= cap
        /\ CountType(result, "tf") > cap
             => CountNotType(result, "tf") = CountNotType(deduped, "tf")

\* C4, witness: the cap is 1, enough non-tf candidates survive, two or more
\* tf candidates survive and exactly one of them is returned.
C4_Witness ==
  /\ pc = "returned"
  /\ opts.allowTrueFalse
  /\ opts.limit \div 5 = 1
  /\ CountNotType(deduped, "tf") >= opts.limit - 1
  /\ CountType(deduped, "tf") >= 2
  /\ CountType(result, "tf") = 1

\* C5: when the whole input is the definition sentence
\* 相対速度とは、二つの物体の速度の差である。 the call with default options
\* returns at least one item of type "fill" with a non-empty answer.
C5_DefinitionYieldsFill ==
  (pc = "returned" /\ bodyRaw = LDefJa /\ opts = DefaultOptions) =>
    \E k \in 1..Len(result) :
      result[k].type = "fill" /\ Len(result[k].answer) > 0

\* C6: an input of 25 to 120 characters (its final 。！？ not counted) never
\* gives an empty list under the default options.
C6_MinimalSentenceNotEmpty ==
  (/\ pc = "returned"
   /\ opts = DefaultOptions
   /\ Len(StripFinalPunct(bodyRaw)) >= 25
   /\ Len(StripFinalPunct(bodyRaw)) <= 120) => Len(result) > 0

\* the texts of normalized lines
RawTexts(norm) == [i \in 1..Len(norm) |-> norm[i].raw]

\* C7: normalizeLines is idempotent: the texts of the lines it returns,
\* normalized again, are the same sequence of texts.
C7_NormalizeIdempotent ==
  pc = "normalized" =>
    RawTexts(normalizeLines(RawTexts(normalized)).out) = RawTexts(normalized)

\* C8: a candidate whose question has fewer than 8 characters is always
\* discarded, so every returned item has a question of 8 characters or more.
C8_ShortQuestionDiscarded ==
  /\ pc \notin {"called", "threw", "normalized", "units", "extracted"} =>
       \A k \in 1..Len(scored) : Len(scored[k].question) >= 8
  /\ pc = "returned" =>
       \A k \in 1..Len(result) : Len(result[k].question) >= 8

\* C8, witness: a candidate with a question under 8 characters and a score
\* reaching minScore was among the candidates, and items were returned.
C8_Witness ==
  /\ pc = "returned"
  /\ Len(result) > 0
  /\ \E k \in 1..Len(extracted) :
       /\ Len(extracted[k].question) < 8
       /\ scoreCandidate(extracted[k]) >= opts.minScore

\* the heading in force at line lineNo: the cleaned text of the last heading
\* line before it, empty when there is none
HeadingAt(norm, lineNo) ==
  LET H == {k \in 1..Len(norm) :
              /\ norm[k].lineNo < lineNo
              /\ Len(Trim(norm[k].raw)) > 0
              /\ HeadingMatch(Trim(norm[k].raw)).ok}
  IN  IF H = {} THEN <<>>
      ELSE cleanInline(HeadingMatch(Trim(norm[SetMax(H)].raw)).rest)

\* the tag withHeading puts before a question
HeadingTag(h) == <<"@<">> \o h \o <<"@>">>

\* C9: every unit carries the heading of the last heading line before it,
\* whatever blank lines lie between; so every question made from a unit
\* under a heading, the def questions among them, begins with that heading
\* in its tag.
C9_HeadingPersists ==
  /\ pc \notin {"called", "threw", "normalized"} =>
       \A k \in 1..Len(units) :
         units[k].heading = HeadingAt(normalized, units[k].lineNo)
  /\ pc \notin {"called", "threw", "normalized", "units"} =>
       \A k \in 1..Len(extracted) :
         LET h == HeadingAt(normalized, extracted[k].source_line)
         IN  h # <<>> => MatchAt(extracted[k].question, 1, HeadingTag(h))

\* C9, witness: a heading line, a definition, a blank line and a second
\* definition; the def questions of lines 2 and 4 both begin with the tag.
C9_Witness ==
  /\ pc = "extracted"
  /\ bodyRaw = BodyOf(<<LHeading, LDefDna, LBlank, LDefRna>>)
  /\ HeadingAt(normalized, 4) # <<>>
  /\ \A n \in {2, 4} : \E k \in 1..Len(extracted) :
       /\ extracted[k].meta.kind = "def"
       /\ extracted[k].source_line = n
       /\ MatchAt(extracted[k].question, 1,
                  HeadingTag(HeadingAt(normalized, 4)))

\* the positions of the candidates of kind kind in cs
KindPositions(cs, kind) == {i \in 1..Len(cs) : cs[i].meta.kind = kind}

\* C10: for every unit whose text matches the definition pattern,
\* extractFromUnit gives exactly one candidate of kind def, its question
\* containing the term, and exactly one of kind def_blank; both have the
\* definition as answer and the line number of the unit as source line, and
\* both are among the candidates of the call.
C10_DefinitionPair ==
  pc \notin {"called", "threw", "normalized", "units"} =>
    \A k \in 1..Len(units) :
      LET u  == units[k]
          m  == DefMatch(u.text)
          cs == extractFromUnit(u)
      IN  m.ok =>
            /\ Cardinality(KindPositions(cs, "def")) = 1
            /\ Cardinality(KindPositions(cs, "def_blank")) = 1
            /\ \A i \in KindPositions(cs, "def") :
                 ContainsAny(cs[i].question, {trimJP(m.term)})
            /\ \A i \in KindPositions(cs, "def")
                          \cup KindPositions(cs, "def_blank") :
                 /\ cs[i].answer = trimJP(m.def)
                 /\ cs[i].source_line = u.lineNo
                 /\ \E j \in 1..Len(extracted) : extracted[j] = cs[i]

\* C10, witness: a unit under a heading matches the pattern with blanks
\* around the captured term, and its pair of candidates has been extracted.
C10_Witness ==
  /\ pc = "extracted"
  /\ \E k \in 1..Len(units) :
       LET m == DefMatch(units[k].text)
       IN  /\ m.ok
           /\ m.term # trimJP(m.term)
           /\ units[k].heading # <<>>
           /\ \E i \in 1..Len(extracted) : \E j \in 1..Len(extracted) :
                /\ extracted[i].meta.kind = "def"
                /\ extracted[j].meta.kind = "def_blank"
                /\ extracted[i].source_line = units[k].lineNo
                /\ extracted[j].source_line = units[k].lineNo

\* the positions of the candidates of type t in cs
TypePositionsOf(cs, t) == {i \in 1..Len(cs) : cs[i].type = t}

\* 重要, 増加, 大: the tokens the tf rule replaces
AntonymTokens == {<<"K_juu", "K_you">>, <<"K_zou", "K_kuwa">>, <<"K_dai">>}

\* the tf question of unit u about the term and the statement w
TfQuestion(u, term, w) ==
  withHeading(u.heading,
    <<"K_sei", "h_shi", "h_i", "@?", "K_go", "h_ri", "@?", "@:",
        "@[">> \o term \o <<"h_to", "h_ha">> \o w \o <<"h_de", "h_a", "h_ru",
        "@]">>)

\* the statement a tf question q of unit u about the term is made of
TfStatement(u, term, q) ==
  SubSeq(q, Len(TfQuestion(u, term, <<>>)) - 3, Len(q) - 4)

\* C11: a unit matching the definition pattern gives tf candidates if and
\* only if its definition has 8 to 80 characters and holds one of the tokens
\* 重要, 増加, 大 (so that the replacement changes it).  Then there are
\* exactly two of them, first the altered statement with the answer 誤り,
\* then the original statement with the answer 正しい; otherwise none.
C11_TfPair ==
  pc \notin {"called", "threw", "normalized", "units"} =>
    \A k \in 1..Len(units) :
      LET u   == units[k]
          m   == DefMatch(u.text)
          def == trimJP(m.def)
          cs  == extractFromUnit(u)
          tfs == TypePositionsOf(cs, "tf")
      IN  m.ok =>
            /\ (tfs # {}) <=> (/\ Len(def) >= 8
                               /\ Len(def) <= 80
                               /\ ContainsAny(def, AntonymTokens))
            /\ tfs # {} =>
                 \E i \in tfs : \E j \in tfs :
                   /\ tfs = {i, j}
                   /\ i < j
                   /\ cs[i].answer = <<"K_go", "h_ri">>
                   /\ cs[j].answer = <<"K_sei", "h_shi", "h_i">>
                   /\ cs[j].question = TfQuestion(u, trimJP(m.term), def)
                   /\ \E w \in {TfStatement(u, trimJP(m.term),
                                            cs[i].question)} :
                        /\ cs[i].question = TfQuestion(u, trimJP(m.term), w)
                        /\ Len(w) = Len(def)
                        /\ w # def
                        /\ ~ContainsAny(w, AntonymTokens)
                   /\ \A n \in tfs : \E x \in 1..Len(extracted) :
                        extracted[x] = cs[n]

\* C11, witness: one unit with a definition of 8 to 80 characters that the
\* replacement changes and its two tf candidates, and one unit with a
\* definition of 8 to 80 characters that it leaves alone and no tf candidate.
C11_Witness ==
  /\ pc = "extracted"
  /\ \E k \in 1..Len(units) : \E n \in 1..Len(units) :
       LET InRange(u) == /\ DefMatch(u.text).ok
                         /\ Len(trimJP(DefMatch(u.text).def)) >= 8
                         /\ Len(trimJP(DefMatch(u.text).def)) <= 80
       IN  /\ InRange(units[k])
           /\ InRange(units[n])
           /\ Cardinality({x \in 1..Len(extracted) :
                             /\ extracted[x].type = "tf"
                             /\ extracted[x].source_line = units[k].lineNo}) = 2
           /\ \A x \in 1..Len(extracted) :
                extracted[x].source_line = units[n].lineNo
                  => extracted[x].type # "tf"

\* the enumeration rule on the units of the call: a unit matching the
\* pattern has a candidate of kind list exactly when splitList gives 3 items
\* or more; that candidate is of type short and its answer is the first 5
\* items at most, in their order, joined by " / "
ListRuleOnUnits ==
  pc \notin {"called", "threw", "normalized", "units"} =>
    \A k \in 1..Len(units) :
      LET u     == units[k]
          m     == ListMatch(u.text)
          items == splitList(trimJP(m.rest))
          cs    == extractFromUnit(u)
          ls    == KindPositions(cs, "list")
          n     == IF Len(items) < 5 THEN Len(items) ELSE 5
      IN  m.ok =>
            /\ (ls # {}) <=> (Len(items) >= 3)
            /\ Cardinality(ls) <= 1
            /\ \A i \in ls :
                 /\ cs[i].type = "short"
                 /\ cs[i].answer = Join(SubSeq(items, 1, n), <<" ", "/", " ">>)
                 /\ \E x \in 1..Len(extracted) : extracted[x] = cs[i]

\* 実験, レポート, 発表, グループワーク: the items the example sentence lists
ExampleItems == {<<"K_jitsu", "K_ken">>, <<"k_re", "k_po", "k_long", "k_to">>,
    <<"K_hatsu", "K_hyou">>, <<"k_gu", "k_ru", "k_long", "k_pu", "k_wa",
    "k_long", "k_ku">>}

\* the example sentence under the default options: the returned list holds
\* an item of type short whose answer contains 3 or more of the listed items
ListExampleReturned ==
  (pc = "returned" /\ bodyRaw = LListEx /\ opts = DefaultOptions) =>
    \E k \in 1..Len(result) :
      /\ result[k].type = "short"
      /\ Cardinality({it \in ExampleItems :
                        ContainsAny(result[k].answer, {it})}) >= 3

\* C12: for a unit matching the enumeration pattern extractFromUnit emits a
\* list candidate (type short) if and only if the split of REST gives at
\* least 3 items, its answer being the first min(5, n) items joined by
\* " / "; and for the example sentence
\* この授業の特徴は、実験、レポート、発表、グループワークがある。 the result
\* contains a short item whose answer holds at least 3 of the listed items.
C12_Enumeration == ListRuleOnUnits /\ ListExampleReturned

\* whether the unit u was built from the normalized line item: an ordinary
\* line one of whose sentences is the text of u, or a bullet line whose
\* cleaned body opens the text of u
BuiltFrom(u, item) ==
  LET s  == Trim(item.raw)
      hm == HeadingMatch(s)
      bm == BulletMatch(s)
      ps == splitSentences(cleanInline(s))
  IN  /\ u.lineNo = item.lineNo
      /\ Len(s) > 0
      /\ ~hm.ok
      /\ IF bm.ok
         THEN /\ Len(cleanInline(bm.rest)) > 0
              /\ MatchAt(u.text, 1, cleanInline(bm.rest))
         ELSE \E i \in 1..Len(ps) : u.text = Trim(ps[i])

\* C13: every line kept by normalizeLines carries its 1-based position in
\* the raw input, whatever lines were discarded before it; every unit
\* carries the number of a line it was built from; and the source_line of
\* every returned item is the line number of a unit that produced it.
C13_LineNumbers ==
  /\ pc \notin {"called", "threw"} =>
       LET lines == SplitLines(bodyRaw)
       IN  \A k \in 1..Len(normalized) :
             /\ normalized[k].lineNo \in 1..Len(lines)
             /\ normalized[k].raw = CleanLine(lines[normalized[k].lineNo])
             /\ k > 1 => normalized[k - 1].lineNo < normalized[k].lineNo
  /\ pc \notin {"called", "threw", "normalized"} =>
       \A k \in 1..Len(units) : \E n \in 1..Len(normalized) :
         BuiltFrom(units[k], normalized[n])
  /\ pc = "returned" =>
       \A k \in 1..Len(result) : \E n \in 1..Len(units) :
         /\ result[k].source_line = units[n].lineNo
         /\ \E c \in {extractFromUnit(units[n])[i] :
                        i \in 1..Len(extractFromUnit(units[n]))} :
              /\ c.question = result[k].question
              /\ c.answer = result[k].answer
              /\ c.type = result[k].type

\* C13, witness: lines were discarded before a kept line, a unit was built
\* from that line and an item with its number was returned.
C13_Witness ==
  /\ pc = "returned"
  /\ \E n \in 1..Len(normalized) : \E k \in 1..Len(result) :
       /\ normalized[n].lineNo > n
       /\ result[k].source_line = normalized[n].lineNo

\* the types of a quiz item
ItemTypes == {"term", "fill", "short", "tf", "question"}

\* the kinds of a candidate
CandidateKinds ==
  {"def", "def_blank", "class2", "list", "cause", "steps", "tf", "fallback"}

\* C14: every candidate of the extractor and every returned item has a type
\* in {term, fill, short, tf, question} and a question that is not empty and
\* has no blank at either end; the kind of every candidate is one of def,
\* def_blank, class2, list, cause, steps, tf, fallback.
C14_TypesAndKinds ==
  /\ pc \notin {"called", "threw", "normalized", "units"} =>
       \A k \in 1..Len(extracted) :
         /\ extracted[k].type \in ItemTypes
         /\ extracted[k].meta.kind \in CandidateKinds
         /\ Len(extracted[k].question) > 0
         /\ Trim(extracted[k].question) = extracted[k].question
  /\ pc = "returned" =>
       \A k \in 1..Len(result) :
         /\ result[k].type \in ItemTypes
         /\ Len(result[k].question) > 0
         /\ Trim(result[k].question) = result[k].question

\* C14, witness: candidates of the types fill, short and tf were extracted
\* and items of the types fill and short were returned.
C14_Witness ==
  /\ pc = "returned"
  /\ \A t \in {"fill", "short", "tf"} :
       \E k \in 1..Len(extracted) : extracted[k].type = t
  /\ \A t \in {"fill", "short"} :
       \E k \in 1..Len(result) : result[k].type = t
\* every invocation in progress, the running one first
Invocations == <<Frame>> \o calls

\* the invocation f is over
Finished(f) == f.pc \in {"returned", "threw"}

CandidatesOf(item) ==
  {i \in 1..Len(extracted) :
     /\ extracted[i].question = item.question
     /\ extracted[i].answer = item.answer
     /\ extracted[i].source_line = item.source_line
     /\ extracted[i].type = item.type}

\* C16: every returned item comes from a candidate whose score is at least
\* the configured minScore, and no candidate scoring below minScore appears
\* in the result, whether the first passes or the backfill selected it.
C16_MinScore ==
  pc = "returned" =>
    /\ \A k \in 1..Len(result) :
         /\ CandidatesOf(result[k]) # {}
         /\ \A i \in CandidatesOf(result[k]) :
              scoreCandidate(extracted[i]) >= opts.minScore
    /\ \A k \in 1..Len(picked) : picked[k].score >= opts.minScore

\* a candidate below the configured minimum was extracted, the minimum is
\* not the default, and the backfill added an item to the returned list
C16_Witness ==
  /\ pc = "returned"
  /\ opts.minScore # DefaultMinScore
  /\ \E i \in 1..Len(extracted) :
       /\ scoreCandidate(extracted[i]) < opts.minScore
       /\ scoreCandidate(extracted[i]) >= DefaultMinScore
       /\ isGoodCandidate(extracted[i])
  /\ \E k \in 1..Len(result) : result[k].type = "tf"
  /\ BackfillAdded
  /\ result # <<>>
\* the line l consists solely of a fence: blanks, three backticks, a
\* language tag of no blank and no backtick (or none), blanks
PureFenceLine(l) ==
  /\ IsFenceLine(l)
  /\ LET rest == TrimEnd(Tail_(l, LeadSpaces(l) + 4))
     IN  \A i \in 1..Len(rest) : ~IsSpace(rest[i]) /\ rest[i] # "BTICK"

\* the toggle before line i when only the pure fence lines flip it
InsideCodeBlock(lines, i) ==
  Cardinality({j \in 1..(i - 1) : PureFenceLine(lines[j])}) % 2 = 1

\* C17: in normalizeLines only a line consisting solely of a fence (with a
\* language tag or without) flips the code-block toggle; that line is
\* dropped, the lines seen while the toggle is on are dropped, and every
\* other line is kept, a line that begins with three backticks and carries
\* other text included.
C17_PureFenceToggles ==
  pc \in {"normalized", "threw"} =>
    LET lines == SplitLines(bodyRaw)
    IN  {normalized[k].lineNo : k \in 1..Len(normalized)}
          = {i \in 1..Len(lines) :
               ~PureFenceLine(lines[i]) /\ ~InsideCodeBlock(lines, i)}
\* the k-th normalized line is a bullet line for toUnits
IsBulletLine(k) ==
  LET s == Trim(normalized[k].raw)
  IN  Len(s) > 0 /\ ~HeadingMatch(s).ok /\ BulletMatch(s).ok

\* the cleaned body of the k-th normalized line, a bullet line
BulletBody(k) == cleanInline(BulletMatch(Trim(normalized[k].raw)).rest)

\* a..b is a maximal run of consecutive bullet lines
BulletRun(a, b) ==
  /\ a <= b
  /\ \A k \in a..b : IsBulletLine(k)
  /\ a = 1 \/ ~IsBulletLine(a - 1)
  /\ b = Len(normalized) \/ ~IsBulletLine(b + 1)

\* the non-empty cleaned bodies of the bullet lines a..b, in order
RunBodies(a, b) ==
  LET NonEmpty(t) == Len(t) > 0
  IN  SelectSeq([k \in 1..(b - a + 1) |-> BulletBody(a + k - 1)], NonEmpty)

\* C18: every maximal run of consecutive bullet lines with a non-empty body
\* yields exactly one unit, whose text is the cleaned bodies joined with
\* " / " and whose line number is that of the first bullet line of the run;
\* a run without a non-empty body yields none, and no bullet line yields a
\* unit of its own.
C18_BulletRuns ==
  pc = "units" =>
    \A a, b \in 1..Len(normalized) :
      BulletRun(a, b) =>
        LET from == {k \in 1..Len(units) :
                       \E j \in a..b : units[k].lineNo = normalized[j].lineNo}
        IN  IF RunBodies(a, b) = <<>> THEN from = {}
            ELSE /\ Cardinality(from) = 1
                 /\ \A k \in from :
                      /\ units[k].text = Join(RunBodies(a, b), <<" ", "/",
                          " ">>)
                      /\ units[k].lineNo = normalized[a].lineNo
\* the k-th normalized line is an ordinary line for toUnits: not blank, not
\* a heading, not a bullet
IsOrdinaryLine(k) ==
  LET s == Trim(normalized[k].raw)
  IN  Len(s) > 0 /\ ~HeadingMatch(s).ok /\ ~BulletMatch(s).ok

\* the text toUnits hands to splitSentences for the k-th normalized line
CleanedLine(k) == cleanInline(Trim(normalized[k].raw))

\* s cut immediately after each of its characters that belong to ends
RECURSIVE SplitAfter(_, _)
SplitAfter(s, ends) ==
  IF \A i \in 1..Len(s) : s[i] \notin ends THEN <<s>>
  ELSE LET k == CHOOSE i \in 1..Len(s) :
                  s[i] \in ends /\ \A j \in 1..(i - 1) : s[j] \notin ends
       IN  <<SubSeq(s, 1, k)>> \o SplitAfter(Tail_(s, k + 1), ends)

\* the texts of the units whose line number is n, in order
UnitTextsOfLine(n) ==
  LET AtLine(u) == u.lineNo = n
      us == SelectSeq(units, AtLine)
  IN  [k \in 1..Len(us) |-> us[k].text]

\* the fragments of parts that are not blank, trimmed
TrimmedFragments(parts) ==
  LET NotBlank(p) == Len(Trim(p)) > 0
      ps == SelectSeq(parts, NotBlank)
  IN  [k \in 1..Len(ps) |-> Trim(ps[k])]

\* C19: splitSentences cuts an ordinary line only immediately after each
\* 。, ！ or ？, the boundary character staying at the end of the fragment
\* before the cut: the fragments concatenated in order are the
\* inline-cleaned line again, a line that contains "|" included, and the
\* units of the line are these fragments.
C19_SplitSentences ==
  pc = "units" =>
    \A k \in 1..Len(normalized) :
      IsOrdinaryLine(k) =>
        LET parts == splitSentences(CleanedLine(k))
        IN  /\ ConcatRange(parts, 1, Len(parts)) = CleanedLine(k)
            /\ UnitTextsOfLine(normalized[k].lineNo)
                 = TrimmedFragments(SplitAfter(CleanedLine(k),
                                               {"@.", "@!", "@?"}))
\* the positions of the filtered list that hold the first candidate of
\* their normalized question key
FirstOfKey ==
  {i \in 1..Len(scored) :
     \A j \in 1..(i - 1) :
       normalizeKey(scored[j].question) # normalizeKey(scored[i].question)}

\* the k-th smallest element of the set S of numbers
NthOf(S, k) == CHOOSE i \in S : Cardinality({j \in S : j <= i}) = k

\* C20: dedupeCandidates keeps, of every normalized question key, exactly
\* the first candidate in extraction order and drops the later ones, whatever
\* their score or heading tag; the kept candidates stay in their order.
C20_DedupeKeepsFirst ==
  pc \in {"deduped", "sorted", "picked", "returned"} =>
    /\ Len(deduped) = Cardinality(FirstOfKey)
    /\ \A k \in 1..Len(deduped) : deduped[k] = scored[NthOf(FirstOfKey, k)]

\* a later candidate with the key of an earlier one, a higher score and a
\* heading tag was dropped, and a candidate after it was kept
C20_Witness ==
  /\ pc = "deduped"
  /\ \E i, j, l \in 1..Len(scored) :
       /\ i < j
       /\ j < l
       /\ normalizeKey(scored[i].question) = normalizeKey(scored[j].question)
       /\ scored[j].score > scored[i].score
       /\ HeadingTagEnd(scored[j].question) > 0
       /\ HeadingTagEnd(scored[i].question) = 0
       /\ \E k \in 1..Len(deduped) : deduped[k] = scored[i]
       /\ \A k \in 1..Len(deduped) : deduped[k] # scored[j]
       /\ \E k \in 1..Len(deduped) : deduped[k] = scored[l]
\* the place of the i-th deduplicated candidate in the order by score
\* descending that keeps candidates of equal score in their order
RankByScore(i) ==
  1 + Cardinality({j \in 1..Len(deduped) :
                     \/ deduped[j].score > deduped[i].score
                     \/ deduped[j].score = deduped[i].score /\ j < i})

\* the smaller of two numbers
Min(a, b) == IF a < b THEN a ELSE b

\* C21: when allowTrueFalse is false the result is exactly the first L
\* candidates of the deduplicated list ordered by score descending,
\* candidates of equal score staying in their extraction order, whatever
\* their type.
C21_TopLByScore ==
  (pc = "returned" /\ ~opts.allowTrueFalse) =>
    /\ Len(result) = Min(opts.limit, Len(deduped))
    /\ \A i \in 1..Len(deduped) :
         RankByScore(i) <= Len(result)
           => result[RankByScore(i)] = FormatItem(deduped[i])

\* the limit cuts the list, two candidates of equal score are returned in
\* their extraction order, and a tf item precedes an item of another type
C21_Witness ==
  /\ pc = "returned"
  /\ ~opts.allowTrueFalse
  /\ Len(deduped) > opts.limit
  /\ \E i, j \in 1..Len(deduped) :
       /\ i < j
       /\ deduped[i].score = deduped[j].score
       /\ RankByScore(j) <= Len(result)
  /\ \E a, b \in 1..Len(result) :
       a < b /\ result[a].type = "tf" /\ result[b].type # "tf"
\* C22: with allowTrueFalse true and a limit L from 0 up, the selector
\* returns exactly min(L, N) items, N being the number of candidates after
\* filtering and deduplication: when the capped first passes leave fewer
\* than L items, the backfill adds unused candidates until L is reached or
\* none is left.
C22_ExactlyMinLN ==
  (pc \in {"picked", "returned"} /\ opts.allowTrueFalse) =>
    /\ Len(picked) = Min(opts.limit, Len(deduped))
    /\ pc = "returned" => Len(result) = Len(picked)
    /\ \A a, b \in 1..Len(picked) : a # b => picked[a] # picked[b]
    /\ \A a \in 1..Len(picked) : \E i \in 1..Len(deduped) :
         picked[a] = deduped[i]

\* the first passes left fewer than L items and the backfill brought the
\* list to exactly L, with candidates to spare
C22_Witness ==
  /\ pc = "returned"
  /\ opts.allowTrueFalse
  /\ BackfillAdded
  /\ Len(result) = opts.limit
  /\ Len(deduped) > opts.limit
\* the positions of the sorted list that hold a tf candidate, and the others
TfPositions == {i \in 1..Len(sorted) : sorted[i].type = "tf"}

OtherPositions == {i \in 1..Len(sorted) : sorted[i].type # "tf"}

\* the cap on tf items, 20% of the limit rounded down
TfCap == opts.limit \div 5

\* the lengths of the first and of the second segment
OtherSegment == Min(Cardinality(OtherPositions), opts.limit - TfCap)

TfSegment == Min(Cardinality(TfPositions), TfCap)

\* the positions of the sorted list the first two segments leave unused
UnusedPositions ==
  {i \in OtherPositions :
     Cardinality({j \in OtherPositions : j <= i}) > OtherSegment}
  \cup {i \in TfPositions :
          Cardinality({j \in TfPositions : j <= i}) > TfSegment}

\* the scores of picked[a..b] never increase
NonIncreasing(a, b) ==
  \A k \in a..(b - 1) : picked[k].score >= picked[k + 1].score

\* C23: with allowTrueFalse true the picked list is the up to L - tfCap
\* highest-scored non-tf candidates in score order, then the up to tfCap
\* highest-scored tf candidates in score order, then the backfill in score
\* order; scores never increase inside a segment, and the non-tf items of
\* the first segment all precede the tf items of the second.
C23_Layout ==
  (pc \in {"picked", "returned"} /\ opts.allowTrueFalse) =>
    LET n1 == OtherSegment
        n2 == TfSegment
        n3 == Len(picked) - n1 - n2
    IN  /\ n3 >= 0
        /\ \A k \in 1..n1 : picked[k] = sorted[NthOf(OtherPositions, k)]
        /\ \A k \in 1..n2 : picked[n1 + k] = sorted[NthOf(TfPositions, k)]
        /\ \A k \in 1..n3 :
             picked[n1 + n2 + k] = sorted[NthOf(UnusedPositions, k)]
        /\ NonIncreasing(1, n1)
        /\ NonIncreasing(n1 + 1, n1 + n2)
        /\ NonIncreasing(n1 + n2 + 1, Len(picked))
        /\ \A k \in 1..n1 : \A i \in OtherPositions :
             Cardinality({j \in OtherPositions : j <= i}) > n1
               => sorted[i].score <= picked[k].score
        /\ \A k \in 1..n2 : \A i \in TfPositions :
             Cardinality({j \in TfPositions : j <= i}) > n2
               => sorted[i].score <= picked[n1 + k].score
        /\ \A a, b \in 1..(n1 + n2) :
             (picked[a].type # "tf" /\ picked[b].type = "tf") => a < b

\* the three segments are there: two non-tf items or more, the capped tf
\* item with a lower place than a non-tf item of lower score, and a backfill
\* item
C23_Witness ==
  /\ pc = "returned"
  /\ opts.allowTrueFalse
  /\ OtherSegment >= 2
  /\ TfSegment >= 1
  /\ Len(picked) > OtherSegment + TfSegment
  /\ picked[OtherSegment + 1].score > picked[OtherSegment].score
\* the base points the scoring gives to a kind
BasePoints ==
  [def |-> 6, def_blank |-> 5, class2 |-> 5, list |-> 4, cause |-> 4,
   steps |-> 4, tf |-> 2]

\* the score of the candidate c, term by term
TermsOfScore(c) ==
  <<IF c.meta.kind \in DOMAIN BasePoints THEN BasePoints[c.meta.kind] ELSE 0,
    IF Len(c.question) < 15 THEN -2
    ELSE IF Len(c.question) > 90 THEN -1 ELSE 1,
    IF Len(c.answer) < 6 THEN -2 ELSE IF Len(c.answer) > 120 THEN -1 ELSE 1,
    IF ContainsAny(c.question, Demonstratives) THEN -2 ELSE 0,
    IF ContainsAny(c.answer, Demonstratives) THEN -1 ELSE 0,
    IF HasDigit(c.question) \/ HasDigit(c.answer) THEN 1 ELSE 0,
    IF HeadingTagEnd(c.question) > 0 THEN 1 ELSE 0>>

\* the sum of the numbers of the sequence ns
RECURSIVE SumOf(_)
SumOf(ns) == IF ns = <<>> THEN 0 ELSE Head(ns) + SumOf(Tail(ns))

\* C24: the score of a candidate is base(kind) + lengthScore(|question|, 15,
\* 90) + lengthScore(|answer|, 6, 120) - 2 for a demonstrative in the
\* question - 1 for one in the answer + 1 for a digit in either + 1 for a
\* heading tag at the start of the question; the candidates kept at line 842
\* are those whose sum reaches minScore.
C24_ScoreTerms ==
  pc \in {"scored", "deduped", "sorted", "picked", "returned"} =>
    /\ \A k \in 1..Len(scored) :
         scored[k].score = SumOf(TermsOfScore(scored[k]))
    /\ Len(scored)
         = Cardinality({i \in 1..Len(extracted) :
                          /\ SumOf(TermsOfScore(extracted[i])) >= opts.minScore
                          /\ isGoodCandidate(extracted[i])})

\* the number of scored candidates whose t-th term is v
CountTerm(t, v) ==
  Cardinality({k \in 1..Len(scored) : TermsOfScore(scored[k])[t] = v})

\* two candidates were scored, one with a question longer than 90
\* characters and one with an answer longer than 120 and a score below the
\* default minimum
C24_Witness ==
  /\ pc = "scored"
  /\ Len(scored) = 2
  /\ CountTerm(2, -1) = 1
  /\ CountTerm(3, -1) = 1
  /\ \E k \in 1..Len(scored) : scored[k].score < DefaultMinScore
\* the characters that are punctuation or symbols, in any script: neither
\* a letter nor a digit
SymbolChars ==
  {" ", "TAB", "LF", "CR", "ZWSP", "BTICK", "!", "#", "$", "%", "&", "'",
   "(", ")", "*", "+", ",", "-", ".", "/", ":", ";", "<", "=", ">", "?",
   "@", "[", "]", "^", "_", "{", "|", "}", "~", "->", "@.", "@,", "@!",
   "@?", "@:", "@(", "@)", "@[", "@]", "@{", "@}", "@<", "@>", "@b[",
   "@b]", "@*", "@ "}

\* s consists entirely of punctuation and symbols
AllSymbols(s) == Len(s) > 0 /\ \A i \in 1..Len(s) : s[i] \in SymbolChars

\* the tests of lines 842 and 1207-1213 on the i-th extracted candidate
PassesOtherTests(i) ==
  LET c == extracted[i]
  IN  /\ scoreCandidate(c) >= opts.minScore
      /\ Len(c.question) >= 8
      /\ c.type = "tf" \/ Len(c.answer) >= 2
      /\ c.answer \notin GenericAnswers

\* C25: the symbols-only test of isGoodCandidate discards a candidate
\* exactly when its question or its answer consists entirely of punctuation
\* and symbols; a question and an answer that each hold a letter or a digit
\* of any script, kana and kanji included, pass it.
C25_SymbolsOnly ==
  pc \in {"scored", "deduped", "sorted", "picked", "returned"} =>
    \A i \in 1..Len(extracted) :
      PassesOtherTests(i) =>
        ((\E k \in 1..Len(scored) :
            /\ scored[k].question = extracted[i].question
            /\ scored[k].answer = extracted[i].answer
            /\ scored[k].meta = extracted[i].meta
            /\ scored[k].source_line = extracted[i].source_line)
         <=> ~(AllSymbols(extracted[i].question)
               \/ AllSymbols(extracted[i].answer)))
\* C26: after a successful DELETE /api/communities/:id by an admin of the
\* community, the community, its memberships and every note that belonged
\* to it are gone: no note posted into the community remains in the table
\* notes.
C26_CommunityNotesGone ==
  [][(res'.op = "DELETE /api/communities/:id" /\ res'.status = 200)
       => /\ res'.id \notin db'.communities
          /\ \A m \in db'.user_communities : m.community_id # res'.id
          /\ \A n \in db.notes :
               n.community_id = res'.id
                 => \A k \in db'.notes : k.id # n.id]_vars
\* the response in res answers a request to read the note or its quizzes
ReadsNote ==
  res.op \in {"GET /api/notes/:id", "GET /api/notes/:id/quizzes"}

\* the rows of the note the request in res names (the tables have not
\* changed since the response: every request that changes them sets res)
NoteRead == {n \in db.notes : n.id = res.id}

\* C27: a note with a community_id, and its quizzes, are served only to a
\* logged-in user who belongs to the community at the time: an anonymous
\* request gets 401 and a logged-in user who is not a member 403, the author
\* of the note included, whatever the visibility of the note.
C27_CommunityNoteReaders ==
  ReadsNote =>
    \A n \in NoteRead :
      n.community_id # 0 =>
        /\ res.user = 0 => res.status = 401
        /\ (res.user # 0 /\ ~userBelongsToCommunity(res.user, n.community_id))
             => res.status = 403
        /\ (res.user # 0 /\ userBelongsToCommunity(res.user, n.community_id))
             => res.status = 200
        /\ res.op = "GET /api/notes/:id"
             => res.body = IF res.status = 200 THEN {n} ELSE {}

\* a logged-in user who is not a member asked for the quizzes of a public
\* note of a community and got 403
C27_Witness ==
  /\ res.op = "GET /api/notes/:id/quizzes"
  /\ res.user # 0
  /\ res.status = 403
  /\ \E n \in NoteRead :
       /\ n.community_id # 0
       /\ n.visibility = "public"
       /\ ~userBelongsToCommunity(res.user, n.community_id)
\* the response in res answers a request to change a note's visibility
PatchesVisibility == res.op = "PATCH /api/notes/:id/visibility"

\* C28: PATCH /api/notes/:id/visibility changes the visibility of a note only
\* when the requester owns the note and the note has no community_id; a
\* missing note (404), a requester who is not the owner (403) and a note of
\* a community (400) leave the tables as they are; on success the stored
\* value is "private" when the request said exactly "private" and "public"
\* otherwise, and nothing else changes.  No other request changes a
\* visibility.
C28_VisibilityChange ==
  [][/\ \A n \in db.notes : \A k \in db'.notes :
          (k.id = n.id /\ k.visibility # n.visibility)
            => /\ PatchesVisibility'
               /\ res'.status = 200
               /\ res'.id = n.id
               /\ res'.user = n.user_id
               /\ n.community_id = 0
     /\ (PatchesVisibility' /\ res'.user # 0) =>
          LET rows == {n \in db.notes : n.id = res'.id}
              vis  == IF res'.arg = "private" THEN "private" ELSE "public"
          IN  /\ res'.status \in {200, 400, 403, 404}
              /\ res'.status = 404 <=> rows = {}
              /\ res'.status = 403
                   <=> \E n \in rows : n.user_id # res'.user
              /\ res'.status = 400
                   <=> \E n \in rows :
                         n.user_id = res'.user /\ n.community_id # 0
              /\ res'.status # 200 => db' = db
              /\ res'.status = 200
                   => db' = [db EXCEPT !.notes =
                               {IF n.id = res'.id
                                  THEN [n EXCEPT !.visibility = vis]
                                  ELSE n : n \in @}]]_vars

\* the owner of a private note outside every community asked for the
\* visibility "Private", which is not exactly "private", and the note is
\* public now
C28_Witness ==
  /\ PatchesVisibility
  /\ res.status = 200
  /\ res.arg = "Private"
  /\ \E n \in db.notes :
       /\ n.id = res.id
       /\ n.user_id = res.user
       /\ n.community_id = 0
       /\ n.visibility = "public"
\* the score of the tf candidates of the call, one set per candidate
TfScores ==
  {<<i, scoreCandidate(extracted[i])>> :
     i \in {x \in 1..Len(extracted) : extracted[x].type = "tf"}}

\* C29: a tf candidate scores 3 at most (2 for its kind, 1 at best for the
\* length of the question, -2 for an answer of fewer than 6 characters,
\* 1 for a digit, 1 for a heading tag); under the default minScore of 3 it
\* reaches minScore only with a heading tag, a digit in the question, a
\* question of 15 to 90 characters and no demonstrative in the question.
C29_TfScore ==
  pc \notin {"called", "threw", "normalized", "units"} =>
    \A p \in TfScores :
      LET c == extracted[p[1]]
      IN  /\ c.meta.kind = "tf"
          /\ Len(c.answer) < 6
          /\ ~HasDigit(c.answer)
          /\ p[2] <= 3
          /\ (opts.minScore = DefaultMinScore /\ p[2] >= opts.minScore)
               => /\ HeadingTagEnd(c.question) > 0
                  /\ HasDigit(c.question)
                  /\ Len(c.question) >= 15
                  /\ Len(c.question) <= 90
                  /\ ~ContainsAny(c.question, Demonstratives)

\* one call extracted a tf candidate that reaches the default minScore, with
\* a heading tag and a digit, and one with a digit in a question of 15 to
\* 90 characters that falls short of it for want of a heading tag
C29_Witness ==
  /\ pc = "extracted"
  /\ opts.minScore = DefaultMinScore
  /\ \E p \in TfScores : p[2] = 3
  /\ \E p \in TfScores :
       /\ p[2] < 3
       /\ HeadingTagEnd(extracted[p[1]].question) = 0
       /\ HasDigit(extracted[p[1]].question)
       /\ Len(extracted[p[1]].question) >= 15
       /\ Len(extracted[p[1]].question) <= 90
\* the options of the call with the other value of allowTrueFalse
OtherTrueFalse == [opts EXCEPT !.allowTrueFalse = ~@]

====
